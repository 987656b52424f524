---------------------------- MODULE Library_proofs ----------------------------
(* Proofs about Library, for every set of subjects, slugs, categories, articles
   and calls, every authored seed, and whatever overlaps that each theorem does
   not rule out: types, articles that can be opened, branches that lead
   somewhere, and a snapshot that is the library.                            *)
EXTENDS Library, TLAPS

(***************************************************************************)
(* Types.  The locals of a call are typed by the step the call is at.      *)
(***************************************************************************)
Ops == {"createCategory", "createSymptom", "createArticle", "saveDraft", "publishDraft",
        "discardDraft", "setHidden", "setDisabled", "deleteSymptom", "deleteCategory"}

Handler(op, at, locals) == [op : {op}, at : {at}, x : locals]

Creating ==
  Handler("createCategory", "write", [cat : Categories])
    \cup Handler("createSymptom", "write", [place : Places, cat : Categories])
    \cup Handler("createArticle", "write", [place : Places])
Writing ==
  Handler("saveDraft", "write", [art : Articles, doc : SUBSET Branches])
    \cup Handler("publishDraft", "write", [art : Articles, doc : SUBSET Branches])
    \cup Handler("discardDraft", "clear", [art : Articles])
    \cup Handler("discardDraft", "remove", [art : Articles])
Showing ==
  Handler("setHidden", "write", [art : Articles, hide : BOOLEAN])
    \cup Handler("setDisabled", "write", [cat : Categories, to : {"listed", "disabled"}])
Deleting ==
  Handler("deleteSymptom", "links", [place : Places, force : BOOLEAN])
    \cup Handler("deleteSymptom", "article", [place : Places, force : BOOLEAN])
    \cup Handler("deleteSymptom", "archive",
                 [place : Places, force : BOOLEAN, art : Articles, row : ArticleRow])
    \cup Handler("deleteSymptom", "remove",
                 [place : Places, force : BOOLEAN, art : Articles \cup {None},
                  row : ArticleRow \cup {None}])
    \cup Handler("deleteCategory", "write", [cat : Categories])

Reload == [todo : SUBSET Tables,
           read : [Tables -> {None} \cup CatTables \cup SymTables \cup ArtTables]]
Reloading == [op : Ops \ {"saveDraft"}, at : {"reload"}, x : Reload]

CallStates == {Idle} \cup Creating \cup Writing \cup Showing \cup Deleting \cup Reloading

CallsTyped == call \in [Calls -> CallStates]

\* What a reload has read is a table.
HasRead(c, t) == call[c] # Idle /\ call[c].at = "reload" /\ t \notin call[c].x.todo
ReadsTyped ==
  \A c \in Calls :
    /\ HasRead(c, "categories") => call[c].x.read["categories"] \in CatTables
    /\ HasRead(c, "symptoms") => call[c].x.read["symptoms"] \in SymTables
    /\ HasRead(c, "articles") => call[c].x.read["articles"] \in ArtTables

TablesTyped == cat \in CatTables /\ sym \in SymTables /\ article \in ArtTables
ServedTyped == served.cat \in CatTables /\ served.sym \in SymTables

Typed == TablesTyped /\ ServedTyped /\ forced \subseteq Places /\ CallsTyped /\ ReadsTyped

\* A call in flight is a handler, at a step, with its locals.
LEMMA InFlight ==
  ASSUME CallsTyped, NEW c \in Calls, call[c] # Idle
  PROVE  call[c].op \in Ops /\ call[c].op # "none"
<1>1. call[c] \in Creating \/ call[c] \in Writing \/ call[c] \in Showing
        \/ call[c] \in Deleting \/ call[c] \in Reloading
  BY DEF CallsTyped, CallStates
<1>2. CASE call[c] \in Creating
  BY <1>2 DEF Creating, Handler, Ops
<1>3. CASE call[c] \in Writing
  BY <1>3 DEF Writing, Handler, Ops
<1>4. CASE call[c] \in Showing
  BY <1>4 DEF Showing, Handler, Ops
<1>5. CASE call[c] \in Deleting
  BY <1>5 DEF Deleting, Handler, Ops
<1>6. CASE call[c] \in Reloading
  BY <1>6 DEF Reloading, Ops
<1>7. QED
  BY <1>1, <1>2, <1>3, <1>4, <1>5, <1>6

\* The locals of a handler that creates.
LEMMA CreatingLocals ==
  ASSUME CallsTyped, NEW c \in Calls
  PROVE  /\ At(c, "createCategory", "write") => call[c].x \in [cat : Categories]
         /\ At(c, "createSymptom", "write") => call[c].x \in [place : Places, cat : Categories]
         /\ At(c, "createArticle", "write") => call[c].x \in [place : Places]
<1>1. SUFFICES ASSUME call[c].op \in {"createCategory", "createSymptom", "createArticle"},
                      call[c].at = "write"
               PROVE  call[c] \in Creating
  BY <1>1 DEF At, Creating, Handler
<1>2. call[c] # Idle /\ call[c] \in CallStates
  BY <1>1 DEF CallsTyped, Idle
<1>3. call[c] \notin Writing /\ call[c] \notin Showing
  BY <1>1 DEF Writing, Showing, Handler
<1>4. call[c] \notin Deleting /\ call[c] \notin Reloading
  BY <1>1 DEF Deleting, Reloading, Handler
<1>5. QED
  BY <1>2, <1>3, <1>4 DEF CallStates

\* The locals of a handler that writes an article.
LEMMA WritingLocals ==
  ASSUME CallsTyped, NEW c \in Calls
  PROVE  /\ At(c, "saveDraft", "write") => call[c].x \in [art : Articles, doc : SUBSET Branches]
         /\ At(c, "publishDraft", "write") => call[c].x \in [art : Articles, doc : SUBSET Branches]
         /\ At(c, "discardDraft", "clear") => call[c].x \in [art : Articles]
         /\ At(c, "discardDraft", "remove") => call[c].x \in [art : Articles]
<1>1. SUFFICES ASSUME call[c].op \in {"saveDraft", "publishDraft", "discardDraft"},
                      call[c].at \in {"write", "clear", "remove"}
               PROVE  call[c] \in Writing
  BY <1>1 DEF At, Writing, Handler
<1>2. call[c] # Idle /\ call[c] \in CallStates
  BY <1>1 DEF CallsTyped, Idle
<1>3. call[c] \notin Creating /\ call[c] \notin Showing
  BY <1>1 DEF Creating, Showing, Handler
<1>4. call[c] \notin Deleting /\ call[c] \notin Reloading
  BY <1>1 DEF Deleting, Reloading, Handler
<1>5. QED
  BY <1>2, <1>3, <1>4 DEF CallStates

\* The locals of a handler that changes what is listed.
LEMMA ShowingLocals ==
  ASSUME CallsTyped, NEW c \in Calls
  PROVE  /\ At(c, "setHidden", "write") => call[c].x \in [art : Articles, hide : BOOLEAN]
         /\ At(c, "setDisabled", "write") =>
              call[c].x \in [cat : Categories, to : {"listed", "disabled"}]
<1>1. SUFFICES ASSUME call[c].op \in {"setHidden", "setDisabled"}, call[c].at = "write"
               PROVE  call[c] \in Showing
  BY <1>1 DEF At, Showing, Handler
<1>2. call[c] # Idle /\ call[c] \in CallStates
  BY <1>1 DEF CallsTyped, Idle
<1>3. call[c] \notin Creating /\ call[c] \notin Writing
  BY <1>1 DEF Creating, Writing, Handler
<1>4. call[c] \notin Deleting /\ call[c] \notin Reloading
  BY <1>1 DEF Deleting, Reloading, Handler
<1>5. QED
  BY <1>2, <1>3, <1>4 DEF CallStates

\* The locals of a handler that deletes.
LEMMA DeletingLocals ==
  ASSUME CallsTyped, NEW c \in Calls
  PROVE  /\ At(c, "deleteSymptom", "links") => call[c].x \in [place : Places, force : BOOLEAN]
         /\ At(c, "deleteSymptom", "article") => call[c].x \in [place : Places, force : BOOLEAN]
         /\ At(c, "deleteSymptom", "archive") =>
              call[c].x \in [place : Places, force : BOOLEAN, art : Articles, row : ArticleRow]
         /\ At(c, "deleteSymptom", "remove") =>
              call[c].x \in [place : Places, force : BOOLEAN, art : Articles \cup {None},
                             row : ArticleRow \cup {None}]
         /\ At(c, "deleteCategory", "write") => call[c].x \in [cat : Categories]
<1>1. SUFFICES ASSUME call[c].op \in {"deleteSymptom", "deleteCategory"},
                      call[c].at \in {"links", "article", "archive", "remove", "write"}
               PROVE  call[c] \in Deleting
  BY <1>1 DEF At, Deleting, Handler
<1>2. call[c] # Idle /\ call[c] \in CallStates
  BY <1>1 DEF CallsTyped, Idle
<1>3. call[c] \notin Creating /\ call[c] \notin Writing
  BY <1>1 DEF Creating, Writing, Handler
<1>4. call[c] \notin Showing /\ call[c] \notin Reloading
  BY <1>1 DEF Showing, Reloading, Handler
<1>5. QED
  BY <1>2, <1>3, <1>4 DEF CallStates

\* The locals of a reload: a draft saved is the one write that has none.
LEMMA ReloadLocals ==
  ASSUME CallsTyped, NEW c \in Calls, call[c] # Idle, call[c].at = "reload"
  PROVE  call[c].x \in Reload /\ call[c].op \in Ops \ {"saveDraft"}
<1>1. call[c] \notin Creating /\ call[c] \notin Writing
  BY DEF Creating, Writing, Handler
<1>2. call[c] \notin Showing /\ call[c] \notin Deleting
  BY DEF Showing, Deleting, Handler
<1>3. QED
  BY <1>1, <1>2 DEF CallsTyped, CallStates, Reloading

\* A step of a call sets its step and its locals.
LEMMA Goes ==
  ASSUME CallsTyped, NEW c \in Calls, call[c] # Idle, NEW at, NEW r, GoTo(c, at, r)
  PROVE  /\ call'[c] = [op |-> call[c].op, at |-> at, x |-> r]
         /\ \A d \in Calls \ {c} : call'[d] = call[d]
         /\ call' = [call EXCEPT ![c] = call'[c]]
BY DEF GoTo, CallsTyped

LEMMA GoesTo ==
  ASSUME CallsTyped, NEW c \in Calls, call[c] # Idle, NEW at, NEW r, GoTo(c, at, r)
  PROVE  call'[c].op = call[c].op /\ call'[c].at = at /\ call'[c].x = r
<1>1. call'[c] = [op |-> call[c].op, at |-> at, x |-> r]
  BY Goes
<1>2. QED
  BY <1>1

\* A call that ends, or comes to a step before its reload.
LEMMA CallSet ==
  ASSUME CallsTyped, ReadsTyped, NEW c \in Calls, NEW s \in CallStates,
         s = Idle \/ s.at # "reload", call' = [call EXCEPT ![c] = s]
  PROVE  CallsTyped' /\ ReadsTyped'
<1>1. call' \in [Calls -> CallStates] /\ call'[c] = s
  BY DEF CallsTyped
<1>2. \A d \in Calls \ {c} : call'[d] = call[d]
  BY DEF CallsTyped
<1>3. \A t \in Tables : ~HasRead(c, t)'
  BY <1>1 DEF HasRead
<1>4. \A d \in Calls \ {c} : \A t \in Tables : HasRead(d, t)' => HasRead(d, t)
  BY <1>2 DEF HasRead
<1>5. QED
  BY <1>1, <1>2, <1>3, <1>4 DEF CallsTyped, ReadsTyped, Tables

\* The reload a write ends with begins with nothing read.
LEMMA ReloadStarts ==
  ASSUME CallsTyped, ReadsTyped, NEW c \in Calls, call[c] # Idle,
         call[c].op # "saveDraft", StartReload(c)
  PROVE  /\ CallsTyped' /\ ReadsTyped'
         /\ call'[c] = [op |-> call[c].op, at |-> "reload",
                        x |-> [todo |-> Tables, read |-> [t \in Tables |-> None]]]
         /\ \A d \in Calls \ {c} : call'[d] = call[d]
<1>1. [todo |-> Tables, read |-> [t \in Tables |-> None]] \in Reload
  BY DEF Reload
<1>2. call'[c] = [op |-> call[c].op, at |-> "reload",
                  x |-> [todo |-> Tables, read |-> [t \in Tables |-> None]]]
  BY Goes DEF StartReload
<1>3. call'[c] \in Reloading
  BY <1>1, <1>2, InFlight DEF Reloading
<1>4. \A d \in Calls \ {c} : call'[d] = call[d]
  BY Goes DEF StartReload
<1>5. CallsTyped'
  BY <1>3, Goes DEF CallsTyped, StartReload, CallStates
<1>6. \A t \in Tables : ~HasRead(c, t)'
  BY <1>2 DEF HasRead
<1>7. \A d \in Calls \ {c} : \A t \in Tables : HasRead(d, t)' => HasRead(d, t)
  BY <1>4 DEF HasRead
<1>8. QED
  BY <1>2, <1>4, <1>5, <1>6, <1>7 DEF ReadsTyped, Tables

\* A request that starts has its locals and its reload ahead of it.
Starts(c, s) ==
  /\ MayStart(s.op, c) /\ s # Idle /\ s.at # "reload" /\ s.op \in Ops
  /\ call' = [call EXCEPT ![c] = s]
  /\ UNCHANGED <<cat, sym, article, archive, served, forced>>

LEMMA RequestStarts ==
  ASSUME Typed, NEW c \in Calls, Request(c)
  PROVE  \E s \in CallStates : Starts(c, s)
<1>0. ASSUME NEW op \in Ops, NEW at, NEW r, Begin(op, c, at, r), at # "reload",
             [op |-> op, at |-> at, x |-> r] \in CallStates
      PROVE  \E s \in CallStates : Starts(c, s)
  <2>1. [op |-> op, at |-> at, x |-> r] # Idle
    BY DEF Ops, Idle
  <2>2. Starts(c, [op |-> op, at |-> at, x |-> r])
    BY <1>0, <2>1 DEF Starts, Begin, tables
  <2>3. QED
    BY <1>0, <2>2
<1>1. ASSUME NEW k \in Categories
      PROVE  /\ [op |-> "createCategory", at |-> "write", x |-> [cat |-> k]] \in CallStates
             /\ [op |-> "deleteCategory", at |-> "write", x |-> [cat |-> k]] \in CallStates
  BY <1>1 DEF CallStates, Creating, Deleting, Handler
<1>2. ASSUME NEW k \in Categories, NEW to \in {"listed", "disabled"}
      PROVE  [op |-> "setDisabled", at |-> "write", x |-> [cat |-> k, to |-> to]] \in CallStates
  BY <1>2 DEF CallStates, Showing, Handler
<1>3. ASSUME NEW k \in Categories, NEW p \in Places
      PROVE  [op |-> "createSymptom", at |-> "write", x |-> [place |-> p, cat |-> k]] \in CallStates
  BY <1>3 DEF CallStates, Creating, Handler
<1>4. ASSUME NEW p \in Places
      PROVE  [op |-> "createArticle", at |-> "write", x |-> [place |-> p]] \in CallStates
  BY <1>4 DEF CallStates, Creating, Handler
<1>5. ASSUME NEW a \in Articles, NEW doc \in SUBSET Branches
      PROVE  /\ [op |-> "saveDraft", at |-> "write", x |-> [art |-> a, doc |-> doc]] \in CallStates
             /\ [op |-> "publishDraft", at |-> "write", x |-> [art |-> a, doc |-> doc]] \in CallStates
  BY <1>5 DEF CallStates, Writing, Handler
<1>6. ASSUME NEW a \in Articles
      PROVE  /\ [op |-> "discardDraft", at |-> "clear", x |-> [art |-> a]] \in CallStates
             /\ [op |-> "discardDraft", at |-> "remove", x |-> [art |-> a]] \in CallStates
  BY <1>6 DEF CallStates, Writing, Handler
<1>7. ASSUME NEW a \in Articles, NEW hide \in BOOLEAN
      PROVE  [op |-> "setHidden", at |-> "write", x |-> [art |-> a, hide |-> hide]] \in CallStates
  BY <1>7 DEF CallStates, Showing, Handler
<1>8. ASSUME NEW p \in Places, NEW force \in BOOLEAN
      PROVE  [op |-> "deleteSymptom", at |-> "links", x |-> [place |-> p, force |-> force]]
               \in CallStates
  BY <1>8 DEF CallStates, Deleting, Handler
<1>9. ASSUME NEW p \in Places, NEW a \in Members(p)
      PROVE  article[a] \in ArticleRow
  BY <1>9 DEF Typed, TablesTyped, ArtTables, Members, There, Unborn, Gone
<1>10. QED
  <2>1. CASE \E k \in Categories : CreateCategory(c, k)
    BY <2>1, <1>1, <1>0 DEF CreateCategory, Ops
  <2>2. CASE \E k \in Categories : DeleteCategory(c, k)
    BY <2>2, <1>1, <1>0 DEF DeleteCategory, Ops
  <2>3. CASE \E k \in Categories : \E to \in {"listed", "disabled"} : SetCategoryDisabled(c, k, to)
    BY <2>3, <1>2, <1>0 DEF SetCategoryDisabled, Ops
  <2>4. CASE \E k \in Categories : \E p \in Places : CreateSymptom(c, p, k)
    BY <2>4, <1>3, <1>0 DEF CreateSymptom, Ops
  <2>5. CASE \E p \in Places : CreateArticleDraft(c, p)
    BY <2>5, <1>4, <1>0 DEF CreateArticleDraft, Ops
  <2>6. CASE \E p \in Places : PublishDraft(c, p)
    <3>1. PICK p \in Places : \E a \in Members(p) :
            /\ article[a].draft # None
            /\ Begin("publishDraft", c, "write", [art |-> a, doc |-> article[a].draft])
      BY <2>6 DEF PublishDraft
    <3>2. PICK a \in Members(p) :
            /\ article[a].draft # None
            /\ Begin("publishDraft", c, "write", [art |-> a, doc |-> article[a].draft])
      BY <3>1
    <3>3. a \in Articles /\ article[a].draft \in SUBSET Branches
      BY <3>2, <1>9 DEF Members, ArticleRow, DocOrNone
    <3>4. QED
      BY <3>2, <3>3, <1>5, <1>0 DEF Ops
  <2>7. CASE \E p \in Places : DiscardDraft(c, p)
    <3>1. PICK p \in Places : \E a \in Members(p) :
            Begin("discardDraft", c, IF article[a].body = None THEN "remove" ELSE "clear",
                  [art |-> a])
      BY <2>7 DEF DiscardDraft
    <3>2. PICK a \in Members(p) :
            Begin("discardDraft", c, IF article[a].body = None THEN "remove" ELSE "clear",
                  [art |-> a])
      BY <3>1
    <3>3. CASE article[a].body = None
      BY <3>2, <3>3, <1>6, <1>0 DEF Ops, Members
    <3>4. CASE article[a].body # None
      BY <3>2, <3>4, <1>6, <1>0 DEF Ops, Members
    <3>5. QED
      BY <3>3, <3>4
  <2>8. CASE \E p \in Places : \E doc \in Docs : SaveDraft(c, p, doc)
    BY <2>8, <1>5, <1>0, LibraryAssumption DEF SaveDraft, Ops, Members
  <2>9. CASE \E p \in Places : \E b \in BOOLEAN : SetArticleHidden(c, p, b)
    BY <2>9, <1>7, <1>0 DEF SetArticleHidden, Ops, Members
  <2>10. CASE \E p \in Places : \E b \in BOOLEAN : DeleteSymptom(c, p, b)
    BY <2>10, <1>8, <1>0 DEF DeleteSymptom, Ops
  <2>11. QED
    BY <2>1, <2>2, <2>3, <2>4, <2>5, <2>6, <2>7, <2>8, <2>9, <2>10 DEF Request
LEMMA RowThere ==
  ASSUME article \in ArtTables, NEW a \in Articles, There(a)
  PROVE  article[a] \in ArticleRow
BY DEF ArtTables, There, Unborn, Gone

LEMMA WithoutTyped ==
  ASSUME article \in ArtTables, NEW places
  PROVE  WithoutMember(places) \in ArtTables
<1>1. SUFFICES ASSUME NEW a \in Articles
               PROVE  WithoutMember(places)[a] \in {Unborn, Gone} \cup ArticleRow
  BY DEF WithoutMember, ArtTables
<1>2. CASE There(a)
  <2>1. article[a] \in ArticleRow
    BY <1>2, RowThere
  <2>2. WithoutMember(places)[a] =
          [article[a] EXCEPT !.subjects = {s \in article[a].subjects :
                                             <<s, article[a].slug>> \notin places}]
    BY <1>2 DEF WithoutMember
  <2>3. QED
    BY <2>1, <2>2 DEF ArticleRow
<1>3. CASE ~There(a)
  BY <1>3 DEF WithoutMember, ArtTables
<1>4. QED
  BY <1>2, <1>3

LEMMA AtIsCall ==
  ASSUME NEW c, NEW op, NEW at, At(c, op, at), op # "none"
  PROVE  call[c] # Idle /\ call[c].op = op
BY DEF At, Idle

\* A step that writes the tables before its reload.
LEMMA WriteTyped ==
  ASSUME Typed, NEW c \in Calls, call[c] # Idle, call[c].op # "saveDraft", StartReload(c),
         TablesTyped', UNCHANGED served, forced' \subseteq Places
  PROVE  Typed'
BY ReloadStarts DEF Typed, ServedTyped

LEMMA EndTyped ==
  ASSUME Typed, NEW c \in Calls, End(c), TablesTyped', ServedTyped', UNCHANGED forced
  PROVE  Typed'
<1>1. Idle \in CallStates
  BY DEF CallStates
<1>2. QED
  BY <1>1, CallSet DEF Typed, End

LEMMA CreateTyped ==
  ASSUME Typed, NEW c \in Calls, InsertCategory(c) \/ InsertSymptom(c) \/ InsertArticle(c)
  PROVE  Typed'
<1>1. CallsTyped /\ TablesTyped
  BY DEF Typed
<1>2. CASE InsertCategory(c)
  <2>1. call[c] # Idle /\ call[c].op = "createCategory" /\ call[c].x.cat \in Categories
    BY <1>1, <1>2, CreatingLocals, AtIsCall DEF InsertCategory
  <2>2. TablesTyped'
    BY <1>1, <1>2, <2>1 DEF InsertCategory, TablesTyped, CatTables
  <2>3. QED
    BY <1>2, <2>1, <2>2, WriteTyped DEF InsertCategory, Typed
<1>3. CASE InsertSymptom(c)
  <2>1. /\ call[c] # Idle /\ call[c].op = "createSymptom"
        /\ call[c].x.place \in Places /\ call[c].x.cat \in Categories
    BY <1>1, <1>3, CreatingLocals, AtIsCall DEF InsertSymptom
  <2>2. TablesTyped'
    BY <1>1, <1>3, <2>1 DEF InsertSymptom, TablesTyped, SymTables
  <2>3. QED
    BY <1>3, <2>1, <2>2, WriteTyped DEF InsertSymptom, Typed
<1>4. CASE InsertArticle(c)
  <2>1. call[c] # Idle /\ call[c].op = "createArticle" /\ call[c].x.place \in Places
    BY <1>1, <1>4, CreatingLocals, AtIsCall DEF InsertArticle
  <2>2. PICK p \in Places : p = call[c].x.place
    BY <2>1
  <2>3. p[1] \in Subjects /\ p[2] \in Slugs
    BY <2>2, LibraryAssumption
  <2>4. Row(p[2], {p[1]}, None, {}) \in ArticleRow
    BY <2>3 DEF Row, ArticleRow, DocOrNone
  <2>5. \E a \in Articles : article' = [article EXCEPT ![a] = Row(p[2], {p[1]}, None, {})]
    BY <1>4, <2>2 DEF InsertArticle
  <2>6. TablesTyped'
    BY <1>1, <1>4, <2>4, <2>5 DEF InsertArticle, TablesTyped, ArtTables
  <2>7. QED
    BY <1>4, <2>1, <2>6, WriteTyped DEF InsertArticle, Typed
<1>5. QED
  BY <1>2, <1>3, <1>4

\* The writes of one row of an article.
LEMMA ArticleTyped ==
  ASSUME Typed, NEW c \in Calls,
         \/ WriteDraft(c) \/ WritePublished(c) \/ ClearDraft(c) \/ RemoveUnpublished(c)
         \/ WriteHidden(c)
  PROVE  Typed'
<1>1. CallsTyped /\ TablesTyped
  BY DEF Typed
<1>2. /\ call[c] # Idle /\ (StartReload(c) => call[c].op # "saveDraft")
      /\ call[c].x.art \in Articles /\ There(call[c].x.art)
  <2>1. CASE WriteDraft(c)
    <3>1. At(c, "saveDraft", "write") /\ call[c].x.art \in Articles
      BY <1>1, <2>1, WritingLocals DEF WriteDraft
    <3>2. ~StartReload(c)
      BY <1>1, <2>1, <3>1, Goes, AtIsCall DEF WriteDraft, StartReload, End, Idle, CallsTyped
    <3>3. QED
      BY <2>1, <3>1, <3>2, AtIsCall DEF WriteDraft
  <2>2. CASE WritePublished(c)
    BY <1>1, <2>2, WritingLocals, AtIsCall DEF WritePublished
  <2>3. CASE ClearDraft(c)
    BY <1>1, <2>3, WritingLocals, AtIsCall DEF ClearDraft
  <2>4. CASE RemoveUnpublished(c)
    BY <1>1, <2>4, WritingLocals, AtIsCall DEF RemoveUnpublished
  <2>5. CASE WriteHidden(c)
    BY <1>1, <2>5, ShowingLocals, AtIsCall DEF WriteHidden
  <2>6. QED
    BY <2>1, <2>2, <2>3, <2>4, <2>5
<1>3. PICK a \in Articles : a = call[c].x.art
  BY <1>2
<1>4. article[a] \in ArticleRow
  BY <1>1, <1>2, <1>3, RowThere DEF TablesTyped
<1>5. article'[a] \in {Gone} \cup ArticleRow /\ \A b \in Articles \ {a} : article'[b] = article[b]
  <2>1. CASE WriteDraft(c)
    <3>1. call[c].x.doc \in DocOrNone
      BY <1>1, <2>1, WritingLocals DEF WriteDraft, DocOrNone
    <3>2. article' = [article EXCEPT ![a].draft = call[c].x.doc]
      BY <1>3, <2>1 DEF WriteDraft
    <3>3. QED
      BY <1>1, <1>4, <3>1, <3>2 DEF TablesTyped, ArtTables, ArticleRow
  <2>2. CASE WritePublished(c)
    <3>1. call[c].x.doc \in DocOrNone
      BY <1>1, <2>2, WritingLocals DEF WritePublished, DocOrNone
    <3>2. article' = [article EXCEPT ![a].body = call[c].x.doc, ![a].draft = None]
      BY <1>3, <2>2 DEF WritePublished
    <3>3. QED
      BY <1>1, <1>4, <3>1, <3>2 DEF TablesTyped, ArtTables, ArticleRow, DocOrNone
  <2>3. CASE ClearDraft(c)
    <3>1. article' = [article EXCEPT ![a].draft = None]
      BY <1>3, <2>3 DEF ClearDraft
    <3>2. QED
      BY <1>1, <1>4, <3>1 DEF TablesTyped, ArtTables, ArticleRow, DocOrNone
  <2>4. CASE RemoveUnpublished(c)
    BY <1>1, <1>3, <2>4 DEF RemoveUnpublished, TablesTyped, ArtTables
  <2>5. CASE WriteHidden(c)
    <3>1. call[c].x.hide \in BOOLEAN
      BY <1>1, <2>5, ShowingLocals DEF WriteHidden
    <3>2. article' = [article EXCEPT ![a].hidden = call[c].x.hide]
      BY <1>3, <2>5 DEF WriteHidden
    <3>3. QED
      BY <1>1, <1>4, <3>1, <3>2 DEF TablesTyped, ArtTables, ArticleRow
  <2>6. QED
    BY <2>1, <2>2, <2>3, <2>4, <2>5
<1>6. article' = [article EXCEPT ![a] = article'[a]]
  <2>1. article' = [b \in Articles |-> article'[b]]
    BY <1>1 DEF WriteDraft, WritePublished, ClearDraft, RemoveUnpublished, WriteHidden,
                TablesTyped, ArtTables
  <2>2. QED
    BY <1>1, <1>5, <2>1 DEF TablesTyped, ArtTables
<1>7. TablesTyped' /\ UNCHANGED <<served, forced>>
  BY <1>1, <1>5, <1>6 DEF TablesTyped, ArtTables, WriteDraft, WritePublished, ClearDraft,
                          RemoveUnpublished, WriteHidden
<1>8. StartReload(c) \/ End(c)
  BY DEF WriteDraft, WritePublished, ClearDraft, RemoveUnpublished, WriteHidden
<1>9. QED
  BY <1>2, <1>7, <1>8, WriteTyped, EndTyped DEF Typed, ServedTyped
\* The steps of a deletion that only look, or keep what they found.
LEMMA LookingTyped ==
  ASSUME Typed, NEW c \in Calls, FindLinks(c) \/ FindArticle(c) \/ Archive(c)
  PROVE  Typed'
<1>1. CallsTyped /\ TablesTyped
  BY DEF Typed
<1>2. call[c] # Idle /\ call[c].op = "deleteSymptom"
  BY AtIsCall DEF FindLinks, FindArticle, Archive
<1>3. ASSUME NEW at \in {"article", "archive", "remove"}, NEW r, GoTo(c, at, r),
             [op |-> "deleteSymptom", at |-> at, x |-> r] \in CallStates
      PROVE  Typed'
  <2>1. call' = [call EXCEPT ![c] = [op |-> "deleteSymptom", at |-> at, x |-> r]]
    BY <1>1, <1>2, <1>3, Goes
  <2>2. CallsTyped' /\ ReadsTyped'
    BY <1>3, <2>1, CallSet DEF Typed
  <2>3. QED
    BY <2>2 DEF Typed, TablesTyped, ServedTyped, FindLinks, FindArticle, Archive, tables
<1>4. CASE FindLinks(c)
  <2>1. call[c].x.place \in Places /\ PointsAt(call[c].x.place) \in BOOLEAN
    BY <1>1, <1>4, DeletingLocals DEF FindLinks, PointsAt
  <2>2. [op |-> "deleteSymptom", at |-> "article",
         x |-> [place |-> call[c].x.place, force |-> PointsAt(call[c].x.place)]] \in Deleting
    BY <2>1 DEF Deleting, Handler
  <2>3. QED
    BY <1>3, <1>4, <2>2 DEF FindLinks, CallStates
<1>5. CASE FindArticle(c)
  <2>1. call[c].x.place \in Places /\ call[c].x.force \in BOOLEAN
    BY <1>1, <1>5, DeletingLocals DEF FindArticle
  <2>2. CASE GoTo(c, "remove", [place |-> call[c].x.place, force |-> call[c].x.force,
                                art |-> None, row |-> None])
    <3>1. [op |-> "deleteSymptom", at |-> "remove",
           x |-> [place |-> call[c].x.place, force |-> call[c].x.force,
                  art |-> None, row |-> None]] \in Deleting
      BY <2>1 DEF Deleting, Handler
    <3>2. QED
      BY <1>3, <2>2, <3>1 DEF CallStates
  <2>3. ASSUME NEW a \in Members(call[c].x.place),
               GoTo(c, "archive", [place |-> call[c].x.place, force |-> call[c].x.force,
                                   art |-> a, row |-> article[a]])
        PROVE  Typed'
    <3>1. a \in Articles /\ article[a] \in ArticleRow
      BY <1>1, RowThere DEF Members, TablesTyped
    <3>2. [op |-> "deleteSymptom", at |-> "archive",
           x |-> [place |-> call[c].x.place, force |-> call[c].x.force,
                  art |-> a, row |-> article[a]]] \in Deleting
      BY <2>1, <3>1 DEF Deleting, Handler
    <3>3. QED
      BY <1>3, <2>3, <3>2 DEF CallStates
  <2>4. QED
    BY <1>5, <2>2, <2>3 DEF FindArticle
<1>6. CASE Archive(c)
  <2>1. call[c].x \in [place : Places, force : BOOLEAN, art : Articles, row : ArticleRow]
    BY <1>1, <1>6, DeletingLocals DEF Archive
  <2>2. call[c].x \in [place : Places, force : BOOLEAN, art : Articles \cup {None},
                       row : ArticleRow \cup {None}]
    BY <2>1
  <2>3. [op |-> "deleteSymptom", at |-> "remove", x |-> call[c].x] \in Deleting
    BY <2>2 DEF Deleting, Handler
  <2>4. QED
    BY <1>3, <1>6, <2>3 DEF Archive, CallStates
<1>7. QED
  BY <1>4, <1>5, <1>6

LEMMA RemoveTyped ==
  ASSUME Typed, NEW c \in Calls, RemoveSymptom(c) \/ RemoveCategory(c) \/ WriteDisabled(c)
  PROVE  Typed'
<1>1. CallsTyped /\ TablesTyped
  BY DEF Typed
<1>2. \A places : WithoutMember(places) \in ArtTables
  BY <1>1, WithoutTyped DEF TablesTyped
<1>3. CASE RemoveSymptom(c)
  <2>1. call[c] # Idle /\ call[c].op = "deleteSymptom" /\ call[c].x.place \in Places
    BY <1>1, <1>3, DeletingLocals, AtIsCall DEF RemoveSymptom
  <2>2. PICK p \in Places : p = call[c].x.place
    BY <2>1
  <2>3. article' = [b \in Articles |-> IF b = call[c].x.art THEN Gone ELSE WithoutMember({p})[b]]
    BY <1>3, <2>2 DEF RemoveSymptom
  <2>4. article' \in ArtTables
    BY <1>2, <2>3 DEF ArtTables
  <2>5. sym' \in SymTables /\ forced' \subseteq Places
    BY <1>1, <1>3, <2>2 DEF RemoveSymptom, TablesTyped, SymTables, Typed
  <2>6. QED
    BY <1>1, <1>3, <2>1, <2>4, <2>5, WriteTyped DEF RemoveSymptom, TablesTyped
<1>4. CASE RemoveCategory(c)
  <2>1. call[c] # Idle /\ call[c].op = "deleteCategory" /\ call[c].x.cat \in Categories
    BY <1>1, <1>4, DeletingLocals, AtIsCall DEF RemoveCategory
  <2>2. cat' \in CatTables /\ sym' \in SymTables
    BY <1>1, <1>4, <2>1 DEF RemoveCategory, TablesTyped, CatTables, SymTables
  <2>3. article' \in ArtTables
    BY <1>2, <1>4 DEF RemoveCategory
  <2>4. QED
    BY <1>4, <2>1, <2>2, <2>3, WriteTyped DEF RemoveCategory, TablesTyped, Typed
<1>5. CASE WriteDisabled(c)
  <2>1. /\ call[c] # Idle /\ call[c].op = "setDisabled"
        /\ call[c].x \in [cat : Categories, to : {"listed", "disabled"}]
    BY <1>1, <1>5, ShowingLocals, AtIsCall DEF WriteDisabled
  <2>2. TablesTyped'
    BY <1>1, <1>5, <2>1 DEF WriteDisabled, TablesTyped, CatTables
  <2>3. QED
    BY <1>5, <2>1, <2>2, WriteTyped DEF WriteDisabled, Typed
<1>6. QED
  BY <1>3, <1>4, <1>5

\* A table is read whole.
LEMMA ReadTableTyped ==
  ASSUME Typed, NEW c \in Calls, NEW t \in Tables, ReadTable(c, t)
  PROVE  /\ Typed'
         /\ call'[c] = [op |-> call[c].op, at |-> "reload",
                        x |-> [todo |-> call[c].x.todo \ {t},
                               read |-> [call[c].x.read EXCEPT ![t] = Contents(t)]]]
         /\ call'[c].x.read[t] = Contents(t)
         /\ \A u \in Tables \ {t} : call'[c].x.read[u] = call[c].x.read[u]
         /\ \A d \in Calls \ {c} : call'[d] = call[d]
<1>1. CallsTyped /\ TablesTyped /\ ReadsTyped /\ call[c] # Idle /\ call[c].at = "reload"
  BY DEF Typed, ReadTable
<1>2. call[c].x \in Reload /\ call[c].op \in Ops \ {"saveDraft"}
  BY <1>1, ReloadLocals
<1>3. /\ Contents(t) \in CatTables \cup SymTables \cup ArtTables
      /\ (t = "categories" => Contents(t) \in CatTables)
      /\ (t = "symptoms" => Contents(t) \in SymTables)
      /\ (t = "articles" => Contents(t) \in ArtTables)
  BY <1>1 DEF Contents, Tables, TablesTyped
<1>4. /\ call'[c] = [op |-> call[c].op, at |-> "reload",
                     x |-> [todo |-> call[c].x.todo \ {t},
                            read |-> [call[c].x.read EXCEPT ![t] = Contents(t)]]]
      /\ \A d \in Calls \ {c} : call'[d] = call[d]
      /\ call' = [call EXCEPT ![c] = call'[c]]
  BY <1>1, Goes DEF ReadTable
<1>5. /\ [call[c].x.read EXCEPT ![t] = Contents(t)][t] = Contents(t)
      /\ \A u \in Tables \ {t} : [call[c].x.read EXCEPT ![t] = Contents(t)][u] = call[c].x.read[u]
      /\ [call[c].x.read EXCEPT ![t] = Contents(t)]
           \in [Tables -> {None} \cup CatTables \cup SymTables \cup ArtTables]
  BY <1>2, <1>3 DEF Reload
<1>6. [todo |-> call[c].x.todo \ {t}, read |-> [call[c].x.read EXCEPT ![t] = Contents(t)]] \in Reload
  BY <1>2, <1>5 DEF Reload
<1>7. call'[c] \in CallStates
  BY <1>2, <1>4, <1>6 DEF CallStates, Reloading
<1>8. CallsTyped'
  BY <1>1, <1>4, <1>7 DEF CallsTyped
<1>9. /\ call'[c].x.read[t] = Contents(t)
      /\ \A u \in Tables \ {t} : call'[c].x.read[u] = call[c].x.read[u]
  BY <1>4, <1>5
<1>10. \A u \in Tables \ {t} : HasRead(c, u)' => HasRead(c, u)
  BY <1>1, <1>4 DEF HasRead
<1>11. \A d \in Calls \ {c} : \A u \in Tables : HasRead(d, u)' => HasRead(d, u)
  BY <1>4 DEF HasRead
<1>12. ReadsTyped'
  <2>1. \A d \in Calls \ {c} :
          /\ HasRead(d, "categories")' => call'[d].x.read["categories"] \in CatTables
          /\ HasRead(d, "symptoms")' => call'[d].x.read["symptoms"] \in SymTables
          /\ HasRead(d, "articles")' => call'[d].x.read["articles"] \in ArtTables
    BY <1>1, <1>4, <1>11 DEF ReadsTyped, Tables
  <2>2. HasRead(c, "categories")' => call'[c].x.read["categories"] \in CatTables
    BY <1>1, <1>3, <1>9, <1>10 DEF ReadsTyped, Tables
  <2>3. HasRead(c, "symptoms")' => call'[c].x.read["symptoms"] \in SymTables
    BY <1>1, <1>3, <1>9, <1>10 DEF ReadsTyped, Tables
  <2>4. HasRead(c, "articles")' => call'[c].x.read["articles"] \in ArtTables
    BY <1>1, <1>3, <1>9, <1>10 DEF ReadsTyped, Tables
  <2>5. QED
    BY <2>1, <2>2, <2>3, <2>4 DEF ReadsTyped, CatTables, SymTables, ArtTables
<1>13. QED
  BY <1>4, <1>8, <1>9, <1>12 DEF Typed, ReadTable, TablesTyped, ServedTyped, tables

LEMMA TypedNext ==
  ASSUME Typed, [Next]_vars
  PROVE  Typed'
<1>1. CASE UNCHANGED vars
  BY <1>1 DEF vars, tables, Typed, TablesTyped, ServedTyped, CallsTyped, ReadsTyped, HasRead
<1>2. CASE CrashAndBoot
  <2>1. CallsTyped' /\ ReadsTyped'
    BY <1>2 DEF CrashAndBoot, CallsTyped, CallStates, ReadsTyped, HasRead
  <2>2. TablesTyped' /\ ServedTyped'
    BY <1>2 DEF CrashAndBoot, Typed, TablesTyped, ServedTyped, tables, Library, Snapshot
  <2>3. QED
    BY <1>2, <2>1, <2>2 DEF CrashAndBoot, Typed
<1>3. ASSUME NEW c \in Calls, Request(c)
      PROVE  Typed'
  <2>1. PICK s \in CallStates : Starts(c, s)
    BY <1>3, RequestStarts
  <2>2. CallsTyped' /\ ReadsTyped'
    BY <2>1, CallSet DEF Starts, Typed
  <2>3. QED
    BY <2>1, <2>2 DEF Starts, Typed, TablesTyped, ServedTyped
<1>4. ASSUME NEW c \in Calls, Continue(c)
      PROVE  Typed'
  <2>1. CASE Fail(c)
    BY <2>1, EndTyped DEF Fail, Typed, TablesTyped, ServedTyped, tables
  <2>2. CASE Install(c)
    <3>1. call[c].x.todo = {} /\ call[c] # Idle /\ call[c].at = "reload"
      BY <2>2 DEF Install
    <3>2. /\ call[c].x.read["categories"] \in CatTables
          /\ call[c].x.read["symptoms"] \in SymTables
      BY <3>1 DEF Typed, ReadsTyped, HasRead
    <3>3. ServedTyped'
      BY <2>2, <3>2 DEF Install, Snapshot, ServedTyped
    <3>4. QED
      BY <2>2, <3>3, EndTyped DEF Install, Typed, TablesTyped, tables
  <2>3. CASE \E t \in Tables : ReadTable(c, t)
    BY <2>3, ReadTableTyped
  <2>4. QED
    BY <1>4, <2>1, <2>2, <2>3, CreateTyped, ArticleTyped, LookingTyped, RemoveTyped DEF Continue
<1>5. QED
  BY <1>1, <1>2, <1>3, <1>4 DEF Next

LEMMA TypedInit == Init => Typed
<1>1. SUFFICES ASSUME Init
               PROVE  Typed
  OBVIOUS
<1>2. TablesTyped
  BY <1>1, SeedsAssumption DEF Init, Authored, TablesTyped
<1>3. CallsTyped /\ ReadsTyped
  BY <1>1 DEF Init, CallsTyped, CallStates, ReadsTyped, HasRead
<1>4. QED
  BY <1>1, <1>2, <1>3 DEF Init, Typed, TablesTyped, ServedTyped, Library, Snapshot

LEMMA TypedAlways == Spec => []Typed
<1>1. Typed /\ [Next]_vars => Typed'
  BY TypedNext
<1>2. QED
  BY TypedInit, <1>1, PTL DEF Spec

\* The tables and the snapshot keep their types, whatever calls overlap.
THEOREM LibraryIsTyped == Spec => []TypeOK
<1>1. Typed => TypeOK
  BY DEF Typed, TablesTyped, ServedTyped, TypeOK
<1>2. QED
  BY TypedAlways, <1>1, PTL
(***************************************************************************)
(* Steps.  What a step may do to the calls and to the row of an article.   *)
(***************************************************************************)

\* A call in flight goes on with its operation or ends.
LEMMA CallGoesOn ==
  ASSUME Typed, NEW c \in Calls, Continue(c)
  PROVE  /\ call[c] # Idle
         /\ call'[c] = Idle \/ (call'[c] # Idle /\ call'[c].op = call[c].op)
         /\ \A d \in Calls \ {c} : call'[d] = call[d]
<1>1. call \in [Calls -> CallStates] /\ CallsTyped
  BY DEF Typed, CallsTyped
<1>2. call[c] # Idle
  BY AtIsCall DEF Continue, InsertCategory, InsertSymptom, InsertArticle, WriteDraft, WritePublished,
       ClearDraft, RemoveUnpublished, WriteHidden, WriteDisabled, FindLinks, FindArticle, Archive,
       RemoveSymptom, RemoveCategory, Fail, Install, ReadTable
<1>3. End(c) \/ \E at : \E r : GoTo(c, at, r)
  BY DEF Continue, InsertCategory, InsertSymptom, InsertArticle, WriteDraft, WritePublished,
       ClearDraft, RemoveUnpublished, WriteHidden, WriteDisabled, FindLinks, FindArticle, Archive,
       RemoveSymptom, RemoveCategory, Fail, Install, ReadTable, StartReload
<1>4. CASE End(c)
  BY <1>1, <1>2, <1>4 DEF End
<1>5. ASSUME NEW at, NEW r, GoTo(c, at, r)
      PROVE  /\ call'[c] # Idle /\ call'[c].op = call[c].op
             /\ \A d \in Calls \ {c} : call'[d] = call[d]
  <2>1. /\ call'[c] = [op |-> call[c].op, at |-> at, x |-> r]
        /\ \A d \in Calls \ {c} : call'[d] = call[d]
    BY <1>1, <1>2, <1>5, Goes
  <2>2. call[c].op # "none" /\ Idle.op = "none"
    BY <1>1, <1>2, InFlight DEF Idle
  <2>3. call'[c].op = call[c].op
    BY <2>1
  <2>4. QED
    BY <2>1, <2>2, <2>3
<1>6. QED
  BY <1>2, <1>3, <1>4, <1>5

\* Two calls in flight are two that may overlap.
Apart == \A c, d \in Calls : c # d /\ call[c] # Idle /\ call[d] # Idle =>
           {call[c].op, call[d].op} \in Beside

LEMMA ApartNext ==
  ASSUME Typed, Apart, [Next]_vars
  PROVE  Apart'
<1>1. CASE UNCHANGED vars
  BY <1>1 DEF Apart, vars
<1>2. CASE CrashAndBoot
  BY <1>2 DEF CrashAndBoot, Apart
<1>3. ASSUME NEW c \in Calls, Request(c)
      PROVE  Apart'
  <2>1. PICK s \in CallStates : Starts(c, s)
    BY <1>3, RequestStarts
  <2>2. call'[c] = s /\ \A d \in Calls \ {c} : call'[d] = call[d]
    BY <2>1 DEF Starts, Typed, CallsTyped
  <2>3. \A d \in Calls \ {c} : call[d] # Idle => {s.op, call[d].op} \in Beside
    BY <2>1 DEF Starts, MayStart
  <2>4. \A d \in Calls : {s.op, call[d].op} = {call[d].op, s.op}
    OBVIOUS
  <2>5. QED
    BY <2>2, <2>3, <2>4 DEF Apart
<1>4. ASSUME NEW c \in Calls, Continue(c)
      PROVE  Apart'
  BY <1>4, CallGoesOn DEF Apart
<1>5. QED
  BY <1>1, <1>2, <1>3, <1>4 DEF Next

\* The row of an article that is there after a step: it keeps its slug, and its
\* subjects unless a symptom it was listed under goes, or it is new.
SameSlug(b) == There(b) /\ article'[b].slug = article[b].slug
Uncovered(b) ==
  /\ article'[b].subjects \subseteq article[b].subjects
  /\ article'[b].body = article[b].body
  /\ \E c \in Calls :
       \/ RemoveSymptom(c) /\ b # call[c].x.art /\ b \in Members(call[c].x.place)
       \/ RemoveCategory(c) /\ In(call[c].x.cat) # {}
NewBody(b) ==
  \/ article'[b].body = article[b].body
  \/ \E c \in Calls : WritePublished(c) /\ call[c].x.art = b /\ article'[b].body = call[c].x.doc
NewRow(b) ==
  \E c \in Calls : \E p \in Places :
    /\ InsertArticle(c) /\ call[c].x.place = p /\ Members(p) = {}
    /\ article[b] = Unborn /\ article'[b] = Row(p[2], {p[1]}, None, {})
    /\ \A a \in Articles \ {b} : article'[a] = article[a]

\* Taking places away leaves a row as it was unless it was listed there.
LEMMA WithoutRow ==
  ASSUME article \in ArtTables, NEW b \in Articles, NEW places \in SUBSET Places,
         WithoutMember(places)[b].state = "there"
  PROVE  /\ There(b)
         /\ LET row == WithoutMember(places)[b]
            IN /\ row.slug = article[b].slug /\ row.body = article[b].body
               /\ row.subjects \subseteq article[b].subjects
               /\ \A s \in article[b].subjects :
                    s \in row.subjects <=> <<s, article[b].slug>> \notin places
<1>1. There(b)
  BY DEF WithoutMember, There
<1>2. article[b] \in ArticleRow
  BY <1>1, RowThere
<1>3. WithoutMember(places)[b] =
        [article[b] EXCEPT !.subjects = {s \in article[b].subjects :
                                           <<s, article[b].slug>> \notin places}]
  BY <1>1 DEF WithoutMember
<1>4. QED
  BY <1>1, <1>2, <1>3 DEF ArticleRow

\* The steps that write the table of articles.
LEMMA ArticleWriters ==
  ASSUME Typed, [Next]_vars
  PROVE  UNCHANGED article \/ \E c \in Calls :
           \/ InsertArticle(c) \/ RemoveSymptom(c) \/ RemoveCategory(c)
           \/ WriteDraft(c) \/ WritePublished(c) \/ ClearDraft(c) \/ RemoveUnpublished(c)
           \/ WriteHidden(c)
<1>1. ASSUME NEW c \in Calls, Request(c)
      PROVE  UNCHANGED article
  BY <1>1, RequestStarts DEF Starts
<1>2. CrashAndBoot \/ UNCHANGED vars => UNCHANGED article
  BY DEF CrashAndBoot, vars, tables
<1>3. ASSUME NEW c \in Calls,
             \/ InsertCategory(c) \/ InsertSymptom(c) \/ WriteDisabled(c) \/ FindLinks(c)
             \/ FindArticle(c) \/ Archive(c) \/ Fail(c) \/ Install(c)
             \/ \E t \in Tables : ReadTable(c, t)
      PROVE  UNCHANGED article
  BY <1>3 DEF InsertCategory, InsertSymptom, WriteDisabled, FindLinks, FindArticle, Archive,
       Fail, Install, ReadTable, tables
<1>4. QED
  BY <1>1, <1>2, <1>3 DEF Next, Continue

LEMMA RowStep ==
  ASSUME Typed, [Next]_vars, NEW b \in Articles, There(b)'
  PROVE  \/ SameSlug(b) /\ article'[b].subjects = article[b].subjects /\ NewBody(b)
         \/ SameSlug(b) /\ Uncovered(b)
         \/ NewRow(b)
<1>1. CallsTyped /\ article \in ArtTables
  BY DEF Typed, TablesTyped
<1>2. CASE UNCHANGED article
  BY <1>2 DEF SameSlug, NewBody, There
<1>3. ASSUME NEW c \in Calls, InsertArticle(c)
      PROVE  \/ SameSlug(b) /\ article'[b].subjects = article[b].subjects /\ NewBody(b)
             \/ NewRow(b)
  <2>1. PICK p \in Places : p = call[c].x.place
    BY <1>1, <1>3, CreatingLocals DEF InsertArticle
  <2>2. PICK a \in Articles : /\ article[a] = Unborn
                              /\ article' = [article EXCEPT ![a] = Row(p[2], {p[1]}, None, {})]
    BY <1>3, <2>1 DEF InsertArticle
  <2>3. CASE a = b
    BY <1>1, <1>3, <2>1, <2>2, <2>3 DEF NewRow, InsertArticle, ArtTables
  <2>4. CASE a # b
    BY <1>1, <2>2, <2>4 DEF SameSlug, NewBody, There, ArtTables
  <2>5. QED
    BY <2>3, <2>4
<1>4. ASSUME NEW c \in Calls,
             \/ WriteDraft(c) \/ WritePublished(c) \/ ClearDraft(c) \/ RemoveUnpublished(c)
             \/ WriteHidden(c)
      PROVE  SameSlug(b) /\ article'[b].subjects = article[b].subjects /\ NewBody(b)
  <2>1. CASE call[c].x.art # b
    BY <1>1, <1>4, <2>1 DEF SameSlug, NewBody, There, ArtTables, WriteDraft, WritePublished,
         ClearDraft, RemoveUnpublished, WriteHidden
  <2>2. CASE call[c].x.art = b
    <3>1. There(b)
      BY <1>4, <2>2 DEF WriteDraft, WritePublished, ClearDraft, RemoveUnpublished, WriteHidden
    <3>2. article[b] \in ArticleRow
      BY <1>1, <3>1, RowThere
    <3>3. CASE WriteDraft(c) \/ ClearDraft(c) \/ WriteHidden(c)
      <4>1. \/ article' = [article EXCEPT ![b].draft = call[c].x.doc]
            \/ article' = [article EXCEPT ![b].draft = None]
            \/ article' = [article EXCEPT ![b].hidden = call[c].x.hide]
        BY <2>2, <3>3 DEF WriteDraft, ClearDraft, WriteHidden
      <4>2. QED
        BY <1>1, <3>1, <3>2, <4>1 DEF SameSlug, NewBody, ArtTables, ArticleRow
    <3>4. CASE WritePublished(c)
      <4>1. article' = [article EXCEPT ![b].body = call[c].x.doc, ![b].draft = None]
        BY <2>2, <3>4 DEF WritePublished
      <4>2. /\ article'[b].body = call[c].x.doc /\ article'[b].slug = article[b].slug
            /\ article'[b].subjects = article[b].subjects
        BY <1>1, <3>2, <4>1 DEF ArtTables, ArticleRow
      <4>3. QED
        BY <2>2, <3>1, <3>4, <4>2 DEF SameSlug, NewBody
    <3>5. CASE RemoveUnpublished(c)
      BY <1>1, <2>2, <3>5 DEF RemoveUnpublished, ArtTables, There, Gone
    <3>6. QED
      BY <1>4, <3>3, <3>4, <3>5
  <2>3. QED
    BY <2>1, <2>2
<1>5. ASSUME NEW places \in SUBSET Places, article'[b] = WithoutMember(places)[b]
      PROVE  /\ SameSlug(b) /\ article'[b].body = article[b].body
             /\ article'[b].subjects \subseteq article[b].subjects
             /\ \A s \in article[b].subjects :
                  s \in article'[b].subjects <=> <<s, article[b].slug>> \notin places
  <2>1. WithoutMember(places)[b].state = "there"
    BY <1>5 DEF There
  <2>2. QED
    BY <1>1, <1>5, <2>1, WithoutRow DEF SameSlug
<1>6. ASSUME NEW c \in Calls, RemoveSymptom(c)
      PROVE  /\ SameSlug(b)
             /\ \/ article'[b].subjects = article[b].subjects /\ NewBody(b)
                \/ Uncovered(b)
  <2>1. PICK p \in Places : p = call[c].x.place
    BY <1>1, <1>6, DeletingLocals DEF RemoveSymptom
  <2>2. b # call[c].x.art /\ article'[b] = WithoutMember({p})[b]
    BY <1>6, <2>1 DEF RemoveSymptom, There, Gone
  <2>3. /\ SameSlug(b) /\ article'[b].body = article[b].body
        /\ article'[b].subjects \subseteq article[b].subjects
        /\ \A s \in article[b].subjects :
             s \in article'[b].subjects <=> <<s, article[b].slug>> \notin {p}
    BY <1>5, <2>2
  <2>4. CASE b \in Members(p)
    BY <1>6, <2>1, <2>2, <2>3, <2>4 DEF Uncovered
  <2>5. CASE b \notin Members(p)
    <3>1. \A s \in article[b].subjects : <<s, article[b].slug>> # p
      BY <2>3, <2>5 DEF Members, SameSlug
    <3>2. article'[b].subjects = article[b].subjects
      BY <2>3, <3>1
    <3>3. QED
      BY <2>3, <3>2 DEF NewBody
  <2>6. QED
    BY <2>4, <2>5
<1>7. ASSUME NEW c \in Calls, RemoveCategory(c)
      PROVE  /\ SameSlug(b)
             /\ \/ article'[b].subjects = article[b].subjects /\ NewBody(b)
                \/ Uncovered(b)
  <2>1. article'[b] = WithoutMember(In(call[c].x.cat))[b] /\ In(call[c].x.cat) \in SUBSET Places
    BY <1>7 DEF RemoveCategory, In
  <2>2. /\ SameSlug(b) /\ article'[b].body = article[b].body
        /\ article'[b].subjects \subseteq article[b].subjects
        /\ \A s \in article[b].subjects :
             s \in article'[b].subjects <=> <<s, article[b].slug>> \notin In(call[c].x.cat)
    BY <1>5, <2>1
  <2>3. QED
    BY <1>7, <2>2 DEF Uncovered, NewBody
<1>8. QED
  BY <1>2, <1>3, <1>4, <1>6, <1>7, ArticleWriters
\* The step a call comes to, and what a request has seen when it starts.
LEMMA CallComesTo ==
  ASSUME Typed, NEW c \in Calls, Continue(c), call'[c] # Idle
  PROVE  \/ FindLinks(c) \/ FindArticle(c) \/ Archive(c)
         \/ call'[c].at = "reload" /\ (StartReload(c) \/ \E t \in Tables : ReadTable(c, t))
<1>1. CallsTyped /\ call[c] # Idle
  BY CallGoesOn DEF Typed
<1>2. ~End(c)
  BY <1>1 DEF End, CallsTyped
<1>3. \A r : GoTo(c, "reload", r) => call'[c].at = "reload"
  BY <1>1, GoesTo
<1>4. QED
  BY <1>2, <1>3 DEF Continue, InsertCategory, InsertSymptom, InsertArticle, WriteDraft,
       WritePublished, ClearDraft, RemoveUnpublished, WriteHidden, WriteDisabled, RemoveSymptom,
       RemoveCategory, Fail, Install, ReadTable, StartReload

\* A step starts a call, takes it on, ends it, or is of another call.
LEMMA CallStep ==
  ASSUME Typed, [Next]_vars, NEW c \in Calls
  PROVE  call'[c] = call[c] \/ call'[c] = Idle \/ Request(c) \/ Continue(c)
<1>1. ASSUME NEW d \in Calls, Request(d), d # c
      PROVE  call'[c] = call[c]
  BY <1>1, RequestStarts DEF Starts, Typed, CallsTyped
<1>2. ASSUME NEW d \in Calls, Continue(d), d # c
      PROVE  call'[c] = call[c]
  BY <1>2, CallGoesOn
<1>3. CrashAndBoot \/ UNCHANGED vars => call'[c] = call[c] \/ call'[c] = Idle
  BY DEF CrashAndBoot, vars
<1>4. QED
  BY <1>1, <1>2, <1>3 DEF Next

\* What a reload has read after a step it had read before, or reads in that step.
LEMMA ReadStep ==
  ASSUME Typed, [Next]_vars, NEW c \in Calls, NEW t \in Tables, HasRead(c, t)'
  PROVE  \/ call'[c] = call[c] /\ HasRead(c, t)
         \/ UNCHANGED tables /\ call'[c].x.read[t] = Contents(t)
         \/ UNCHANGED tables /\ HasRead(c, t) /\ call'[c].x.read[t] = call[c].x.read[t]
<1>1. CallsTyped
  BY DEF Typed
<1>2. CASE call'[c] = call[c]
  BY <1>2 DEF HasRead
<1>3. CASE Request(c)
  <2>1. PICK s \in CallStates : Starts(c, s)
    BY <1>3, RequestStarts
  <2>2. call'[c] = s /\ s.at # "reload"
    BY <1>1, <2>1 DEF Starts, CallsTyped
  <2>3. QED
    BY <2>2 DEF HasRead
<1>4. CASE Continue(c) /\ call'[c] # Idle
  <2>1. CASE StartReload(c)
    <3>1. call'[c].x = [todo |-> Tables, read |-> [u \in Tables |-> None]]
      BY <1>1, <1>4, <2>1, GoesTo, CallGoesOn DEF StartReload
    <3>2. QED
      BY <3>1 DEF HasRead
  <2>2. ASSUME NEW u \in Tables, ReadTable(c, u)
        PROVE  /\ UNCHANGED tables
               /\ \/ call'[c].x.read[t] = Contents(t)
                  \/ HasRead(c, t) /\ call'[c].x.read[t] = call[c].x.read[t]
    <3>1. UNCHANGED tables
      BY <2>2 DEF ReadTable
    <3>2. CASE t = u
      BY <2>2, <3>1, <3>2, ReadTableTyped
    <3>3. CASE t # u
      <4>1. call'[c].x.read[t] = call[c].x.read[t]
        BY <2>2, <3>3, ReadTableTyped
      <4>2. call'[c].x.todo = call[c].x.todo \ {u}
        BY <1>1, <1>4, <2>2, GoesTo, CallGoesOn DEF ReadTable
      <4>3. HasRead(c, t)
        BY <2>2, <3>3, <4>2 DEF HasRead, ReadTable
      <4>4. QED
        BY <3>1, <4>1, <4>3
    <3>4. QED
      BY <3>2, <3>3
  <2>3. CASE FindLinks(c) \/ FindArticle(c) \/ Archive(c)
    <3>1. \E at \in {"article", "archive", "remove"} : \E r : GoTo(c, at, r)
      BY <2>3 DEF FindLinks, FindArticle, Archive
    <3>2. call'[c].at # "reload"
      BY <1>1, <1>4, <3>1, GoesTo, CallGoesOn
    <3>3. QED
      BY <3>2 DEF HasRead
  <2>4. QED
    BY <1>4, <2>1, <2>2, <2>3, CallComesTo
<1>5. QED
  BY <1>2, <1>3, <1>4, CallStep DEF HasRead

\* The snapshot is replaced at the end of a reload and at boot; until then a
\* reload goes on.
LEMMA ServedStays ==
  ASSUME Typed, [Next]_vars, ~CrashAndBoot, \A c \in Calls : ~Install(c)
  PROVE  /\ UNCHANGED served
         /\ \A c \in Calls : call[c] # Idle /\ call[c].at = "reload" =>
              call'[c] # Idle /\ call'[c].op = call[c].op /\ call'[c].at = "reload"
<1>1. CallsTyped
  BY DEF Typed
<1>2. UNCHANGED served
  <2>1. ASSUME NEW c \in Calls, Request(c)
        PROVE  UNCHANGED served
    BY <2>1, RequestStarts DEF Starts
  <2>2. ASSUME NEW c \in Calls, Continue(c)
        PROVE  UNCHANGED served
    BY <2>2 DEF Continue, InsertCategory, InsertSymptom, InsertArticle, WriteDraft,
         WritePublished, ClearDraft, RemoveUnpublished, WriteHidden, WriteDisabled, FindLinks,
         FindArticle, Archive, RemoveSymptom, RemoveCategory, Fail, ReadTable
  <2>3. QED
    BY <2>1, <2>2 DEF Next, vars
<1>3. ASSUME NEW c \in Calls, call[c] # Idle, call[c].at = "reload"
      PROVE  call'[c] # Idle /\ call'[c].op = call[c].op /\ call'[c].at = "reload"
  <2>1. CASE call'[c] = call[c]
    BY <1>3, <2>1
  <2>2. CASE Request(c)
    BY <1>3, <2>2, RequestStarts DEF Starts, MayStart
  <2>3. CASE Continue(c)
    <3>1. \E t \in Tables : ReadTable(c, t)
      BY <1>3, <2>3 DEF Continue, InsertCategory, InsertSymptom, InsertArticle, WriteDraft,
           WritePublished, ClearDraft, RemoveUnpublished, WriteHidden, WriteDisabled, FindLinks,
           FindArticle, Archive, RemoveSymptom, RemoveCategory, Fail, At
    <3>2. call'[c].op = call[c].op /\ call'[c].at = "reload"
      BY <1>1, <1>3, <3>1, GoesTo DEF ReadTable
    <3>3. call[c].op # "none" /\ Idle.op = "none"
      BY <1>1, <1>3, InFlight DEF Idle
    <3>4. QED
      BY <3>2, <3>3
  <2>4. call'[c] = call[c] \/ Request(c) \/ Continue(c)
    <3>1. ASSUME NEW d \in Calls, Request(d), d # c
          PROVE  call'[c] = call[c]
      BY <1>1, <3>1, RequestStarts DEF Starts, CallsTyped
    <3>2. ASSUME NEW d \in Calls, Continue(d), d # c
          PROVE  call'[c] = call[c]
      BY <3>2, CallGoesOn
    <3>3. QED
      BY <3>1, <3>2 DEF Next, vars
  <2>5. QED
    BY <2>1, <2>2, <2>3, <2>4
<1>4. QED
  BY <1>2, <1>3

LEMMA RequestKnows ==
  ASSUME Typed, NEW c \in Calls, Request(c)
  PROVE  /\ call'[c].op = "deleteCategory" => In(call'[c].x.cat) = {}
         /\ call'[c].op = "deleteSymptom" => call'[c].at = "links"
         /\ call'[c].op = "publishDraft" =>
              /\ There(call'[c].x.art)
              /\ Publishable(call'[c].x.doc, article[call'[c].x.art].subjects)
<1>1. ASSUME NEW op, NEW at, NEW r, Begin(op, c, at, r)
      PROVE  call'[c].op = op /\ call'[c].at = at /\ call'[c].x = r
  BY <1>1 DEF Begin, Typed, CallsTyped
<1>2. CASE \E k \in Categories : CreateCategory(c, k)
  BY <1>1, <1>2 DEF CreateCategory
<1>3. CASE \E k \in Categories : DeleteCategory(c, k)
  <2>1. PICK k \in Categories : In(k) = {} /\ Begin("deleteCategory", c, "write", [cat |-> k])
    BY <1>3 DEF DeleteCategory
  <2>2. call'[c].op = "deleteCategory" /\ call'[c].x = [cat |-> k]
    BY <1>1, <2>1
  <2>3. QED
    BY <2>1, <2>2
<1>4. CASE \E k \in Categories : \E to \in {"listed", "disabled"} : SetCategoryDisabled(c, k, to)
  BY <1>1, <1>4 DEF SetCategoryDisabled
<1>5. CASE \E k \in Categories : \E p \in Places : CreateSymptom(c, p, k)
  BY <1>1, <1>5 DEF CreateSymptom
<1>6. CASE \E p \in Places : PublishDraft(c, p)
  BY <1>1, <1>6 DEF PublishDraft, Members
<1>7. CASE \E p \in Places : CreateArticleDraft(c, p) \/ DiscardDraft(c, p)
  <2>1. call'[c].op = "createArticle" \/ call'[c].op = "discardDraft"
    BY <1>1, <1>7 DEF CreateArticleDraft, DiscardDraft
  <2>2. QED
    BY <2>1
<1>8. CASE \E p \in Places : \E doc \in Docs : SaveDraft(c, p, doc)
  BY <1>1, <1>8 DEF SaveDraft
<1>9. CASE \E p \in Places : \E b \in BOOLEAN : SetArticleHidden(c, p, b) \/ DeleteSymptom(c, p, b)
  <2>1. \/ call'[c].op = "setHidden"
        \/ call'[c].op = "deleteSymptom" /\ call'[c].at = "links"
    BY <1>1, <1>9 DEF SetArticleHidden, DeleteSymptom
  <2>2. QED
    BY <2>1
<1>10. QED
  BY <1>2, <1>3, <1>4, <1>5, <1>6, <1>7, <1>8, <1>9 DEF Request

(***************************************************************************)
(* No article is left without a place to open it from, if an article is    *)
(* not created while a symptom is deleted, nor a symptom while a category  *)
(* is.  A deletion has found whatever is there: no article but its own is  *)
(* listed at the place, and the category is as empty as it was.            *)
(***************************************************************************)
CreationsApart ==
  /\ {"deleteSymptom", "createArticle"} \notin Beside
  /\ {"deleteCategory", "createSymptom"} \notin Beside

Single == \A p \in Places : \A a, b \in Members(p) : a = b

Removing(c) == At(c, "deleteSymptom", "archive") \/ At(c, "deleteSymptom", "remove")
Emptied ==
  \A c \in Calls :
    /\ At(c, "deleteCategory", "write") => In(call[c].x.cat) = {}
    /\ Removing(c) => Members(call[c].x.place) \subseteq {call[c].x.art}

ListedInv == Typed /\ Apart /\ Single /\ Emptied /\ EveryArticleIsListed

LEMMA MembersStep ==
  ASSUME Typed, [Next]_vars, NEW p \in Places, NEW b \in Members(p)'
  PROVE  b \in Members(p) \/ NewRow(b)
<1>1. b \in Articles /\ There(b)' /\ article'[b].slug = p[2] /\ p[1] \in article'[b].subjects
  BY DEF Members, There
<1>2. QED
  BY <1>1, RowStep DEF SameSlug, Uncovered, Members

LEMMA InStep ==
  ASSUME Typed, [Next]_vars, NEW k \in Categories, NEW p \in In(k)'
  PROVE  p \in In(k) \/ \E c \in Calls : InsertSymptom(c)
<1>1. p \in Places /\ sym'[p] = k
  BY DEF In
<1>2. sym'[p] = sym[p] \/ sym'[p] = None \/ \E c \in Calls : InsertSymptom(c)
  <2>1. ASSUME NEW c \in Calls, Request(c)
        PROVE  UNCHANGED sym
    BY <2>1, RequestStarts DEF Starts
  <2>2. CrashAndBoot \/ UNCHANGED vars => UNCHANGED sym
    BY DEF CrashAndBoot, vars, tables
  <2>3. ASSUME NEW c \in Calls, Continue(c), ~InsertSymptom(c)
        PROVE  sym'[p] = sym[p] \/ sym'[p] = None
    <3>1. CASE RemoveSymptom(c) \/ RemoveCategory(c)
      BY <1>1, <3>1 DEF RemoveSymptom, RemoveCategory, Typed, TablesTyped, SymTables
    <3>2. CASE ~RemoveSymptom(c) /\ ~RemoveCategory(c)
      BY <2>3, <3>2 DEF Continue, InsertCategory, InsertArticle, WriteDraft, WritePublished,
           ClearDraft, RemoveUnpublished, WriteHidden, WriteDisabled, FindLinks, FindArticle,
           Archive, Fail, Install, ReadTable, tables
    <3>3. QED
      BY <3>1, <3>2
  <2>4. QED
    BY <2>1, <2>2, <2>3 DEF Next
<1>3. QED
  BY <1>1, <1>2, LibraryAssumption DEF In

LEMMA SingleNext ==
  ASSUME Typed, Single, [Next]_vars
  PROVE  Single'
<1>1. SUFFICES ASSUME NEW p \in Places, NEW a \in Members(p)', NEW b \in Members(p)', a # b
               PROVE  FALSE
  BY DEF Single
<1>2. a \in Articles /\ b \in Articles
  BY DEF Members
<1>3. ASSUME NEW e \in Members(p)', NEW f \in Members(p)', e # f, NewRow(e)
      PROVE  FALSE
  <2>1. PICK q \in Places : /\ Members(q) = {} /\ article'[e] = Row(q[2], {q[1]}, None, {})
                            /\ \A d \in Articles \ {e} : article'[d] = article[d]
    BY <1>3 DEF NewRow
  <2>2. article'[e].slug = p[2] /\ p[1] \in article'[e].subjects
    BY DEF Members
  <2>3. p[2] = q[2] /\ p[1] = q[1]
    BY <2>1, <2>2 DEF Row
  <2>4. p = q
    BY <2>3, LibraryAssumption
  <2>5. f \in Members(p)
    BY <1>3, <2>1 DEF Members, There
  <2>6. QED
    BY <2>1, <2>4, <2>5
<1>4. QED
  BY <1>1, <1>3, MembersStep DEF Single

LEMMA EmptiedNext ==
  ASSUME CreationsApart, ListedInv, [Next]_vars
  PROVE  Emptied'
<1>1. Typed /\ CallsTyped /\ call \in [Calls -> CallStates]
  BY DEF ListedInv, Typed, CallsTyped
<1>2. SUFFICES ASSUME NEW c \in Calls
               PROVE  /\ At(c, "deleteCategory", "write")' => In(call[c].x.cat)' = {}
                      /\ Removing(c)' => Members(call[c].x.place)' \subseteq {call'[c].x.art}
  BY DEF Emptied
<1>3. CASE call'[c] = call[c]
  <2>1. CASE At(c, "deleteCategory", "write")
    <3>1. PICK k \in Categories : k = call[c].x.cat
      BY <1>1, <2>1, DeletingLocals
    <3>2. ASSUME NEW d \in Calls, InsertSymptom(d)
          PROVE  FALSE
      <4>1. call[d] # Idle /\ call[d].op = "createSymptom"
        BY <3>2, AtIsCall DEF InsertSymptom
      <4>2. call[c] # Idle /\ call[c].op = "deleteCategory"
        BY <2>1, AtIsCall
      <4>3. {call[c].op, call[d].op} \in Beside
        BY <4>1, <4>2 DEF ListedInv, Apart
      <4>4. QED
        BY <4>1, <4>2, <4>3 DEF CreationsApart
    <3>3. In(k) = {}
      BY <2>1, <3>1 DEF ListedInv, Emptied
    <3>4. In(k)' = {}
      BY <1>1, <3>2, <3>3, InStep
    <3>5. QED
      BY <1>3, <2>1, <3>1, <3>4 DEF Removing, At, In
  <2>2. CASE Removing(c)
    <3>1. PICK p \in Places : p = call[c].x.place
      BY <1>1, <2>2, DeletingLocals DEF Removing
    <3>2. ASSUME NEW d \in Calls, InsertArticle(d)
          PROVE  FALSE
      <4>1. call[d] # Idle /\ call[d].op = "createArticle"
        BY <3>2, AtIsCall DEF InsertArticle
      <4>2. call[c] # Idle /\ call[c].op = "deleteSymptom"
        BY <2>2, AtIsCall DEF Removing
      <4>3. {call[c].op, call[d].op} \in Beside
        BY <4>1, <4>2 DEF ListedInv, Apart
      <4>4. QED
        BY <4>1, <4>2, <4>3 DEF CreationsApart
    <3>3. Members(p) \subseteq {call[c].x.art}
      BY <2>2, <3>1 DEF ListedInv, Emptied
    <3>4. Members(p)' \subseteq {call[c].x.art}
      BY <1>1, <3>2, <3>3, MembersStep DEF NewRow
    <3>5. QED
      BY <1>3, <2>2, <3>1, <3>4 DEF Removing, At, Members, There
  <2>3. CASE ~At(c, "deleteCategory", "write") /\ ~Removing(c)
    BY <1>3, <2>3 DEF Removing, At
  <2>4. QED
    BY <2>1, <2>2, <2>3
<1>4. CASE call'[c] = Idle
  BY <1>4 DEF Idle, Removing, At
<1>5. CASE Request(c)
  <2>1. UNCHANGED sym
    BY <1>1, <1>5, RequestStarts DEF Starts
  <2>2. call'[c].op = "deleteCategory" => In(call'[c].x.cat) = {}
    BY <1>1, <1>5, RequestKnows
  <2>3. At(c, "deleteCategory", "write")' => In(call[c].x.cat)' = {}
    BY <2>1, <2>2 DEF At, In
  <2>4. ~Removing(c)'
    BY <1>1, <1>5, RequestKnows DEF Removing, At
  <2>5. QED
    BY <2>3, <2>4
<1>6. CASE Continue(c) /\ call'[c] # Idle
  <2>1. CASE FindArticle(c)
    <3>1. call[c] # Idle /\ UNCHANGED article
      BY <2>1, AtIsCall DEF FindArticle, tables
    <3>2. PICK p \in Places : p = call[c].x.place
      BY <1>1, <2>1, DeletingLocals DEF FindArticle
    <3>3. PICK f : f = call[c].x.force
      OBVIOUS
    <3>4. CASE Members(p) = {}
      <4>1. GoTo(c, "remove", [place |-> p, force |-> f, art |-> None, row |-> None])
        BY <2>1, <3>2, <3>3, <3>4 DEF FindArticle
      <4>2. call'[c] = [op |-> call[c].op, at |-> "remove",
                        x |-> [place |-> p, force |-> f, art |-> None, row |-> None]]
        BY <1>1, <3>1, <4>1, Goes
      <4>3. QED
        BY <3>1, <3>4, <4>2 DEF At, Members, There
    <3>5. ASSUME NEW a \in Members(p),
                 GoTo(c, "archive", [place |-> p, force |-> f, art |-> a, row |-> article[a]])
          PROVE  /\ ~At(c, "deleteCategory", "write")'
                 /\ Members(call[c].x.place)' \subseteq {call'[c].x.art}
      <4>1. call'[c] = [op |-> call[c].op, at |-> "archive",
                        x |-> [place |-> p, force |-> f, art |-> a, row |-> article[a]]]
        BY <1>1, <3>1, <3>5, Goes
      <4>2. Members(p) \subseteq {a}
        BY <3>5 DEF ListedInv, Single
      <4>3. QED
        BY <3>1, <4>1, <4>2 DEF At, Members, There
    <3>6. QED
      BY <2>1, <3>2, <3>3, <3>4, <3>5 DEF FindArticle
  <2>2. CASE Archive(c)
    <3>1. call[c] # Idle /\ UNCHANGED article /\ Removing(c)
      BY <2>2, AtIsCall DEF Archive, tables, Removing
    <3>2. call'[c].x = call[c].x /\ call'[c].at = "remove"
      BY <1>1, <2>2, <3>1, GoesTo DEF Archive
    <3>3. Members(call[c].x.place) \subseteq {call[c].x.art}
      BY <3>1 DEF ListedInv, Emptied
    <3>4. QED
      BY <3>1, <3>2, <3>3 DEF At, Members, There
  <2>3. CASE FindLinks(c)
    <3>1. call[c] # Idle
      BY <2>3, AtIsCall DEF FindLinks
    <3>2. call'[c].at = "article"
      BY <1>1, <2>3, <3>1, GoesTo DEF FindLinks
    <3>3. QED
      BY <3>2 DEF At, Removing
  <2>4. CASE call'[c].at = "reload"
    BY <2>4 DEF At, Removing
  <2>5. QED
    BY <1>1, <1>6, <2>1, <2>2, <2>3, <2>4, CallComesTo
<1>7. QED
  BY <1>1, <1>3, <1>4, <1>5, <1>6, CallStep

LEMMA ListedNext ==
  ASSUME CreationsApart, ListedInv, [Next]_vars
  PROVE  ListedInv'
<1>1. Typed /\ Typed' /\ Apart' /\ Single' /\ Emptied'
  BY TypedNext, ApartNext, SingleNext, EmptiedNext DEF ListedInv
<1>2. ASSUME NEW b \in Articles, There(b)'
      PROVE  article'[b].subjects # {}
  <2>1. CASE SameSlug(b) /\ article'[b].subjects = article[b].subjects
    BY <2>1 DEF SameSlug, ListedInv, EveryArticleIsListed
  <2>2. CASE Uncovered(b)
    <3>1. PICK c \in Calls :
            \/ RemoveSymptom(c) /\ b # call[c].x.art /\ b \in Members(call[c].x.place)
            \/ RemoveCategory(c) /\ In(call[c].x.cat) # {}
      BY <2>2 DEF Uncovered
    <3>2. CASE RemoveSymptom(c) /\ b # call[c].x.art /\ b \in Members(call[c].x.place)
      BY <3>2 DEF RemoveSymptom, Removing, ListedInv, Emptied
    <3>3. CASE RemoveCategory(c) /\ In(call[c].x.cat) # {}
      BY <3>3 DEF RemoveCategory, ListedInv, Emptied
    <3>4. QED
      BY <3>1, <3>2, <3>3
  <2>3. CASE NewRow(b)
    BY <2>3 DEF NewRow, Row
  <2>4. QED
    BY <1>1, <1>2, <2>1, <2>2, <2>3, RowStep
<1>3. EveryArticleIsListed'
  BY <1>2 DEF EveryArticleIsListed, There
<1>4. QED
  BY <1>1, <1>3 DEF ListedInv

LEMMA ListedInit == Init => ListedInv
<1>1. SUFFICES ASSUME Init
               PROVE  ListedInv
  OBVIOUS
<1>2. PICK seed \in Seeds : article = seed.article
  BY <1>1 DEF Init
<1>3. Authored(seed)
  BY SeedsAssumption
<1>4. Apart /\ Emptied
  BY <1>1 DEF Init, Apart, Emptied, Removing, At, Idle
<1>5. EveryArticleIsListed
  BY <1>2, <1>3 DEF Authored, EveryArticleIsListed, There
<1>6. Single
  <2>1. SUFFICES ASSUME NEW p \in Places, NEW a \in Members(p), NEW b \in Members(p)
                 PROVE  a = b
    BY DEF Single
  <2>2. \A e \in {a, b} : /\ e \in Articles /\ seed.article[e].state = "there"
                          /\ seed.article[e].slug = p[2] /\ p[1] \in seed.article[e].subjects
    BY <1>2 DEF Members, There
  <2>3. QED
    BY <1>3, <2>2 DEF Authored
<1>7. QED
  BY <1>1, <1>4, <1>5, <1>6, TypedInit DEF ListedInv

LEMMA ListedAlways == ASSUME CreationsApart PROVE Spec => []ListedInv
<1>1. ListedInv /\ [Next]_vars => ListedInv'
  BY ListedNext
<1>2. QED
  BY ListedInit, <1>1, PTL DEF Spec

\* No article is left without a place to open it from (the checks of
\* createArticleDraft and deleteCategory, the transaction of deleteSymptom).
THEOREM ArticlesStayListed == ASSUME CreationsApart PROVE Spec => []EveryArticleIsListed
<1>1. ListedInv => EveryArticleIsListed
  BY DEF ListedInv
<1>2. QED
  BY ListedAlways, <1>1, PTL
(***************************************************************************)
(* A published branch leads somewhere, if a symptom is deleted beside      *)
(* nothing but the saving of drafts.  The snapshot the gate looks at knows *)
(* no symptom that is gone, unless its deletion is just being loaded; what *)
(* passed the gate still resolves when it is written; and a deletion that  *)
(* nobody was warned of removes what no published article points at.       *)
(***************************************************************************)
DeletionsAlone ==
  /\ \A op \in Ops \ {"saveDraft"} : {"deleteSymptom", op} \notin Beside
  /\ {"deleteCategory", "createSymptom"} \notin Beside

Reachable == {p \in Places : sym[p] # None} \cup forced

KnowsNoGhost(table) == \A p \in Places : table[p] # None => sym[p] # None
Fresh ==
  /\ (\A c \in Calls : ~At(c, "deleteSymptom", "reload")) => KnowsNoGhost(served.sym)
  /\ \A c \in Calls : HasRead(c, "symptoms") => KnowsNoGhost(call[c].x.read["symptoms"])

Vetted ==
  \A c \in Calls : At(c, "publishDraft", "write") =>
    /\ article[call[c].x.art] # Unborn
    /\ There(call[c].x.art) =>
         Leads(call[c].x.doc, article[call[c].x.art].subjects) \subseteq Reachable

Unwarned(c) == (At(c, "deleteSymptom", "article") \/ Removing(c)) /\ ~call[c].x.force
PublishedAt(p) ==
  \E b \in Articles : /\ There(b) /\ article[b].body # None
                      /\ p \in Leads(article[b].body, article[b].subjects)
Warned == \A c \in Calls : Unwarned(c) => ~PublishedAt(call[c].x.place)

ResolveInv == ListedInv /\ Fresh /\ Vetted /\ Warned /\ LiveBranchesResolve

LEMMA DeletionsAreApart == DeletionsAlone => CreationsApart
BY DEF DeletionsAlone, CreationsApart, Ops

\* A call beside a deletion saves a draft.
LEMMA BesideDeletion ==
  ASSUME DeletionsAlone, ListedInv, NEW c \in Calls, NEW d \in Calls, c # d,
         call[c] # Idle, call[c].op = "deleteSymptom", call[d] # Idle
  PROVE  call[d].op = "saveDraft"
<1>1. {"deleteSymptom", call[d].op} \in Beside
  BY DEF ListedInv, Apart
<1>2. call[d].op \in Ops
  BY InFlight DEF ListedInv, Typed
<1>3. QED
  BY <1>1, <1>2 DEF DeletionsAlone

\* Nobody loses a place who is not removed with it.
LEMMA NoneUncovered ==
  ASSUME ListedInv, NEW b \in Articles, There(b)
  PROVE  ~Uncovered(b)
<1>1. ASSUME NEW c \in Calls, RemoveSymptom(c), b # call[c].x.art, b \in Members(call[c].x.place)
      PROVE  FALSE
  BY <1>1 DEF RemoveSymptom, Removing, ListedInv, Emptied
<1>2. ASSUME NEW c \in Calls, RemoveCategory(c), In(call[c].x.cat) # {}
      PROVE  FALSE
  BY <1>2 DEF RemoveCategory, ListedInv, Emptied
<1>3. QED
  BY <1>1, <1>2 DEF Uncovered

LEMMA NewIsUnpublished ==
  ASSUME NEW b, NewRow(b)
  PROVE  article'[b].body = None
<1>1. PICK p \in Places : article'[b] = Row(p[2], {p[1]}, None, {})
  BY DEF NewRow
<1>2. QED
  BY <1>1 DEF Row

LEMMA KeepsSubjects ==
  ASSUME ListedInv, [Next]_vars, NEW b \in Articles, There(b)'
  PROVE  \/ SameSlug(b) /\ article'[b].subjects = article[b].subjects /\ NewBody(b)
         \/ NewRow(b)
BY RowStep, NoneUncovered DEF ListedInv, SameSlug

\* A symptom goes with its deletion only: a category that is deleted is empty.
LEMMA SymptomStep ==
  ASSUME ListedInv, [Next]_vars, NEW p \in Places, sym[p] # None, sym'[p] = None
  PROVE  \E c \in Calls : RemoveSymptom(c) /\ call[c].x.place = p
<1>1. CallsTyped /\ sym \in SymTables
  BY DEF ListedInv, Typed, TablesTyped
<1>2. ASSUME NEW c \in Calls, Request(c)
      PROVE  FALSE
  BY <1>2, RequestStarts DEF Starts, ListedInv
<1>3. ~CrashAndBoot /\ ~UNCHANGED vars
  BY DEF CrashAndBoot, vars, tables
<1>4. ASSUME NEW c \in Calls, RemoveCategory(c)
      PROVE  FALSE
  <2>1. In(call[c].x.cat) = {}
    BY <1>4 DEF RemoveCategory, ListedInv, Emptied
  <2>2. sym'[p] = sym[p]
    BY <1>4, <2>1 DEF RemoveCategory, In
  <2>3. QED
    BY <2>2
<1>5. ASSUME NEW c \in Calls, InsertSymptom(c)
      PROVE  FALSE
  <2>1. call[c].x.cat # None /\ call[c].x.place \in Places
    BY <1>1, <1>5, CreatingLocals, LibraryAssumption DEF InsertSymptom
  <2>2. QED
    BY <1>1, <1>5, <2>1 DEF InsertSymptom, SymTables
<1>6. ASSUME NEW c \in Calls, RemoveSymptom(c), call[c].x.place # p
      PROVE  FALSE
  BY <1>1, <1>6 DEF RemoveSymptom, SymTables
<1>7. ASSUME NEW c \in Calls,
             \/ InsertCategory(c) \/ InsertArticle(c) \/ WriteDraft(c) \/ WritePublished(c)
             \/ ClearDraft(c) \/ RemoveUnpublished(c) \/ WriteHidden(c) \/ WriteDisabled(c)
             \/ FindLinks(c) \/ FindArticle(c) \/ Archive(c) \/ Fail(c) \/ Install(c)
             \/ \E t \in Tables : ReadTable(c, t)
      PROVE  FALSE
  BY <1>7 DEF InsertCategory, InsertArticle, WriteDraft, WritePublished, ClearDraft,
       RemoveUnpublished, WriteHidden, WriteDisabled, FindLinks, FindArticle, Archive, Fail,
       Install, ReadTable, tables
<1>8. QED
  BY <1>2, <1>3, <1>4, <1>5, <1>6, <1>7 DEF Next, Continue

LEMMA ForcedStays ==
  ASSUME Typed, [Next]_vars
  PROVE  forced \subseteq forced'
<1>1. ASSUME NEW c \in Calls, Request(c)
      PROVE  forced' = forced
  BY <1>1, RequestStarts DEF Starts
<1>2. CrashAndBoot \/ UNCHANGED vars => forced' = forced
  BY DEF CrashAndBoot, vars
<1>3. ASSUME NEW c \in Calls, Continue(c)
      PROVE  forced \subseteq forced'
  BY <1>3 DEF Continue, InsertCategory, InsertSymptom, InsertArticle, WriteDraft, WritePublished,
       ClearDraft, RemoveUnpublished, WriteHidden, WriteDisabled, FindLinks, FindArticle, Archive,
       RemoveSymptom, RemoveCategory, Fail, Install, ReadTable
<1>4. QED
  BY <1>1, <1>2, <1>3 DEF Next

LEMMA ReachableStep ==
  ASSUME ListedInv, [Next]_vars, NEW p \in Reachable
  PROVE  p \in Reachable' \/ \E c \in Calls : RemoveSymptom(c) /\ call[c].x.place = p /\ Unwarned(c)
<1>1. CASE p \in forced
  BY <1>1, ForcedStays DEF Reachable, ListedInv
<1>2. CASE p \in Places /\ sym[p] # None /\ sym'[p] = None
  <2>1. PICK c \in Calls : RemoveSymptom(c) /\ call[c].x.place = p
    BY <1>2, SymptomStep
  <2>2. CASE call[c].x.force
    BY <2>1, <2>2 DEF RemoveSymptom, Reachable
  <2>3. CASE ~call[c].x.force
    BY <2>1, <2>3 DEF RemoveSymptom, Unwarned, Removing
  <2>4. QED
    BY <2>2, <2>3
<1>3. QED
  BY <1>1, <1>2 DEF Reachable
LEMMA FreshNext ==
  ASSUME DeletionsAlone, ResolveInv, [Next]_vars
  PROVE  Fresh'
<1>1. ListedInv /\ Typed /\ CallsTyped /\ Fresh
  BY DEF ResolveInv, ListedInv, Typed
<1>2. ASSUME NEW c \in Calls, HasRead(c, "symptoms")', NEW p \in Places,
             call'[c].x.read["symptoms"][p] # None
      PROVE  sym'[p] # None
  <2>1. CASE call'[c] = call[c] /\ HasRead(c, "symptoms")
    <3>1. sym[p] # None
      BY <1>1, <1>2, <2>1 DEF Fresh, KnowsNoGhost
    <3>2. ASSUME NEW d \in Calls, RemoveSymptom(d)
          PROVE  FALSE
      <4>1. call[d] # Idle /\ call[d].op = "deleteSymptom" /\ call[d].at = "remove"
        BY <3>2, AtIsCall DEF RemoveSymptom, At
      <4>2. call[c] # Idle /\ call[c].at = "reload" /\ call[c].op # "saveDraft"
        BY <1>1, <2>1, ReloadLocals DEF HasRead
      <4>3. QED
        BY <1>1, <4>1, <4>2, BesideDeletion
    <3>3. QED
      BY <1>1, <3>1, <3>2, SymptomStep
  <2>2. CASE UNCHANGED tables /\ call'[c].x.read["symptoms"] = Contents("symptoms")
    BY <1>2, <2>2 DEF Contents, tables
  <2>3. CASE /\ UNCHANGED tables /\ HasRead(c, "symptoms")
             /\ call'[c].x.read["symptoms"] = call[c].x.read["symptoms"]
    BY <1>1, <1>2, <2>3 DEF Fresh, KnowsNoGhost, tables
  <2>4. QED
    BY <1>1, <1>2, <2>1, <2>2, <2>3, ReadStep DEF Tables
<1>3. ASSUME \A c \in Calls : ~At(c, "deleteSymptom", "reload")',
             NEW p \in Places, served'.sym[p] # None
      PROVE  sym'[p] # None
  <2>1. CASE CrashAndBoot
    BY <1>3, <2>1 DEF CrashAndBoot, Library, Snapshot, tables
  <2>2. ASSUME NEW c \in Calls, Install(c)
        PROVE  sym'[p] # None
    <3>1. HasRead(c, "symptoms") /\ UNCHANGED sym
      BY <2>2 DEF Install, HasRead, tables
    <3>2. served'.sym = call[c].x.read["symptoms"]
      BY <2>2 DEF Install, Snapshot
    <3>3. QED
      BY <1>1, <1>3, <3>1, <3>2 DEF Fresh, KnowsNoGhost
  <2>3. CASE ~CrashAndBoot /\ \A c \in Calls : ~Install(c)
    <3>1. UNCHANGED served
      BY <1>1, <2>3, ServedStays
    <3>2. ASSUME NEW c \in Calls, At(c, "deleteSymptom", "reload")
          PROVE  FALSE
      BY <1>1, <1>3, <2>3, <3>2, AtIsCall, ServedStays DEF At
    <3>3. sym[p] # None
      BY <1>1, <1>3, <3>1, <3>2 DEF Fresh, KnowsNoGhost
    <3>4. ASSUME NEW c \in Calls, RemoveSymptom(c)
          PROVE  FALSE
      <4>1. call[c] # Idle /\ call[c].op = "deleteSymptom"
        BY <3>4, AtIsCall DEF RemoveSymptom
      <4>2. call'[c].op = call[c].op /\ call'[c].at = "reload"
        BY <1>1, <3>4, <4>1, GoesTo DEF RemoveSymptom, StartReload
      <4>3. QED
        BY <1>3, <4>1, <4>2 DEF At
    <3>5. QED
      BY <1>1, <3>3, <3>4, SymptomStep
  <2>4. QED
    BY <2>1, <2>2, <2>3
<1>4. QED
  BY <1>2, <1>3 DEF Fresh, KnowsNoGhost

\* An article that was ever written is not written again.
LEMMA StaysBorn ==
  ASSUME Typed, [Next]_vars, NEW b \in Articles, article[b] # Unborn
  PROVE  article'[b] # Unborn
<1>1. Unborn.state = "unborn" /\ Gone.state = "gone"
  BY DEF Unborn, Gone
<1>2. article'[b] = article[b] \/ There(b)' \/ article'[b] = Gone
  <2>1. CallsTyped /\ article \in ArtTables
    BY DEF Typed, TablesTyped
  <2>2. ASSUME NEW c \in Calls, InsertArticle(c)
        PROVE  article'[b] = article[b] \/ There(b)'
    <3>1. PICK a \in Articles : /\ \E r : article' = [article EXCEPT ![a] = r]
                                /\ article[a] = Unborn
      BY <2>2 DEF InsertArticle
    <3>2. QED
      BY <2>1, <3>1 DEF ArtTables
  <2>3. ASSUME NEW c \in Calls,
               WriteDraft(c) \/ WritePublished(c) \/ ClearDraft(c) \/ WriteHidden(c)
        PROVE  article'[b] = article[b] \/ There(b)'
    <3>1. CASE call[c].x.art # b
      BY <2>1, <2>3, <3>1 DEF ArtTables, WriteDraft, WritePublished, ClearDraft, WriteHidden
    <3>2. CASE call[c].x.art = b
      <4>1. article[b] \in ArticleRow
        BY <2>1, <2>3, <3>2, RowThere DEF WriteDraft, WritePublished, ClearDraft, WriteHidden
      <4>2. \/ article' = [article EXCEPT ![b].draft = call[c].x.doc]
            \/ article' = [article EXCEPT ![b].body = call[c].x.doc, ![b].draft = None]
            \/ article' = [article EXCEPT ![b].draft = None]
            \/ article' = [article EXCEPT ![b].hidden = call[c].x.hide]
        BY <2>3, <3>2 DEF WriteDraft, WritePublished, ClearDraft, WriteHidden
      <4>3. article'[b].state = "there"
        BY <2>1, <4>1, <4>2 DEF ArtTables, ArticleRow
      <4>4. QED
        BY <4>3 DEF There
    <3>3. QED
      BY <3>1, <3>2
  <2>4. ASSUME NEW c \in Calls, RemoveUnpublished(c)
        PROVE  article'[b] = article[b] \/ article'[b] = Gone
    BY <2>1, <2>4 DEF RemoveUnpublished, ArtTables
  <2>5. ASSUME NEW places
        PROVE  WithoutMember(places)[b] = article[b] \/ WithoutMember(places)[b].state = "there"
    <3>1. CASE There(b)
      <4>1. article[b] \in ArticleRow
        BY <2>1, <3>1, RowThere
      <4>2. WithoutMember(places)[b] =
              [article[b] EXCEPT !.subjects = {s \in article[b].subjects :
                                                 <<s, article[b].slug>> \notin places}]
        BY <3>1 DEF WithoutMember
      <4>3. QED
        BY <4>1, <4>2 DEF ArticleRow
    <3>2. CASE ~There(b)
      BY <3>2 DEF WithoutMember
    <3>3. QED
      BY <3>1, <3>2
  <2>6. ASSUME NEW c \in Calls, RemoveSymptom(c) \/ RemoveCategory(c)
        PROVE  article'[b] = article[b] \/ There(b)' \/ article'[b] = Gone
    <3>1. article'[b] = Gone \/ \E places : article'[b] = WithoutMember(places)[b]
      BY <2>6 DEF RemoveSymptom, RemoveCategory
    <3>2. QED
      BY <2>5, <3>1 DEF There
  <2>7. QED
    BY <2>2, <2>3, <2>4, <2>6, ArticleWriters
<1>3. QED
  BY <1>1, <1>2 DEF There
LEMMA VettedNext ==
  ASSUME DeletionsAlone, ResolveInv, [Next]_vars
  PROVE  Vetted'
<1>1. ListedInv /\ Typed /\ CallsTyped /\ Fresh /\ Vetted
  BY DEF ResolveInv, ListedInv, Typed
<1>2. SUFFICES ASSUME NEW c \in Calls, At(c, "publishDraft", "write")'
               PROVE  /\ article'[call'[c].x.art] # Unborn'
                      /\ There(call[c].x.art)' =>
                           Leads(call[c].x.doc, article[call[c].x.art].subjects)' \subseteq Reachable'
  BY DEF Vetted, There, Leads, Targets
<1>3. call'[c].op = "publishDraft" /\ call'[c].at = "write" /\ call'[c] # Idle
  BY <1>2 DEF At, Idle
<1>4. ~Continue(c)
  <2>1. SUFFICES ASSUME Continue(c), FindLinks(c) \/ FindArticle(c) \/ Archive(c)
                 PROVE  FALSE
    BY <1>1, <1>3, CallComesTo
  <2>2. call[c].op = "deleteSymptom"
    BY <2>1 DEF FindLinks, FindArticle, Archive, At
  <2>3. QED
    BY <1>1, <1>3, <2>1, <2>2, CallGoesOn
<1>5. CASE call'[c] = call[c]
  <2>1. At(c, "publishDraft", "write") /\ call[c] # Idle
    BY <1>2, <1>5, AtIsCall DEF At
  <2>2. PICK a \in Articles : a = call[c].x.art
    BY <1>1, <2>1, WritingLocals
  <2>3. PICK doc : doc = call[c].x.doc
    OBVIOUS
  <2>4. /\ article[a] # Unborn
        /\ There(a) => Leads(doc, article[a].subjects) \subseteq Reachable
    BY <1>1, <2>1, <2>2, <2>3 DEF Vetted
  <2>5. article'[a] # Unborn
    BY <1>1, <2>4, StaysBorn
  <2>6. ASSUME NEW d \in Calls, RemoveSymptom(d)
        PROVE  FALSE
    <3>1. call[d] # Idle /\ call[d].op = "deleteSymptom"
      BY <2>6, AtIsCall DEF RemoveSymptom
    <3>2. QED
      BY <1>1, <1>3, <1>5, <2>1, <3>1, BesideDeletion
  <2>7. Reachable \subseteq Reachable'
    BY <1>1, <2>6, ReachableStep
  <2>8. ASSUME article'[a].state = "there"
        PROVE  Leads(doc, article'[a].subjects) \subseteq Reachable'
    <3>1. There(a) /\ article'[a].subjects = article[a].subjects
      BY <1>1, <2>4, <2>8, KeepsSubjects DEF SameSlug, NewRow, There
    <3>2. QED
      BY <2>4, <2>7, <3>1
  <2>9. QED
    BY <1>5, <2>2, <2>3, <2>5, <2>8 DEF There, Leads, Targets, Unborn
<1>6. CASE Request(c)
  <2>1. PICK s \in CallStates : Starts(c, s)
    BY <1>1, <1>6, RequestStarts
  <2>2. call'[c] = s /\ UNCHANGED <<sym, article, forced>>
    BY <1>1, <2>1 DEF Starts, CallsTyped
  <2>3. /\ There(s.x.art)
        /\ Leads(s.x.doc, article[s.x.art].subjects) \subseteq Known(served)
    BY <1>1, <1>3, <1>6, <2>2, RequestKnows DEF Publishable
  <2>4. ASSUME NEW d \in Calls, At(d, "deleteSymptom", "reload")
        PROVE  FALSE
    <3>1. call[d] # Idle /\ call[d].op = "deleteSymptom"
      BY <2>4, AtIsCall
    <3>2. {"publishDraft", "deleteSymptom"} \in Beside
      BY <1>3, <2>1, <2>2, <3>1 DEF Starts, MayStart
    <3>3. {"publishDraft", "deleteSymptom"} = {"deleteSymptom", "publishDraft"}
      OBVIOUS
    <3>4. QED
      BY <3>2, <3>3 DEF DeletionsAlone, Ops
  <2>5. Known(served) \subseteq Reachable
    BY <1>1, <2>4 DEF Fresh, KnowsNoGhost, Known, Reachable
  <2>6. Reachable' = Reachable
    BY <2>2 DEF Reachable
  <2>7. QED
    BY <2>2, <2>3, <2>5, <2>6 DEF There, Leads, Targets, Unborn
<1>7. QED
  BY <1>1, <1>3, <1>4, <1>5, <1>6, CallStep

LEMMA WarnedNext ==
  ASSUME DeletionsAlone, ResolveInv, [Next]_vars
  PROVE  Warned'
<1>1. ListedInv /\ Typed /\ CallsTyped /\ Warned
  BY DEF ResolveInv, ListedInv, Typed
<1>2. SUFFICES ASSUME NEW c \in Calls, Unwarned(c)', PublishedAt(call[c].x.place)'
               PROVE  FALSE
  BY DEF Warned
<1>3. /\ call'[c].op = "deleteSymptom" /\ call'[c].at \in {"article", "archive", "remove"}
      /\ ~call'[c].x.force /\ call'[c] # Idle
  BY <1>2 DEF Unwarned, Removing, At, Idle
<1>4. PICK p : p = call'[c].x.place
  OBVIOUS
<1>5. PICK b \in Articles : /\ There(b)' /\ article'[b].body # None
                            /\ p \in Leads(article'[b].body, article'[b].subjects)
  BY <1>2, <1>4 DEF PublishedAt, There, Leads, Targets
<1>6. CASE call'[c] = call[c]
  <2>1. Unwarned(c) /\ call[c] # Idle /\ call[c].op = "deleteSymptom"
    BY <1>2, <1>3, <1>6 DEF Unwarned, Removing, At
  <2>2. ~PublishedAt(p)
    BY <1>1, <1>4, <1>6, <2>1 DEF Warned
  <2>3. ASSUME NEW d \in Calls, WritePublished(d)
        PROVE  FALSE
    <3>1. call[d] # Idle /\ call[d].op = "publishDraft"
      BY <2>3, AtIsCall DEF WritePublished
    <3>2. QED
      BY <1>1, <2>1, <3>1, BesideDeletion
  <2>4. ~NewRow(b)
    BY <1>5, NewIsUnpublished
  <2>5. /\ There(b) /\ article'[b].subjects = article[b].subjects
        /\ article'[b].body = article[b].body
    BY <1>1, <1>5, <2>3, <2>4, KeepsSubjects DEF SameSlug, NewBody
  <2>6. QED
    BY <1>5, <2>2, <2>5 DEF PublishedAt
<1>7. CASE Request(c)
  BY <1>1, <1>3, <1>7, RequestKnows
<1>8. CASE Continue(c)
  <2>1. call[c] # Idle /\ (FindLinks(c) \/ FindArticle(c) \/ Archive(c))
    BY <1>1, <1>3, <1>8, CallComesTo, CallGoesOn
  <2>2. UNCHANGED article
    BY <2>1 DEF FindLinks, FindArticle, Archive, tables
  <2>3. PublishedAt(p)
    BY <1>5, <2>2 DEF PublishedAt, There
  <2>4. CASE FindLinks(c)
    <3>1. GoTo(c, "article", [place |-> call[c].x.place, force |-> PointsAt(call[c].x.place)])
      BY <2>4 DEF FindLinks
    <3>2. call'[c].x = [place |-> call[c].x.place, force |-> PointsAt(call[c].x.place)]
      BY <1>1, <2>1, <3>1, GoesTo
    <3>3. p = call[c].x.place /\ ~PointsAt(p)
      BY <1>3, <1>4, <3>2
    <3>4. QED
      BY <2>3, <3>3 DEF PublishedAt, PointsAt
  <2>5. CASE FindArticle(c) \/ Archive(c)
    <3>1. \E at : \E r : GoTo(c, at, r) /\ r.place = call[c].x.place /\ r.force = call[c].x.force
      <4>1. CASE FindArticle(c)
        <5>1. \E a, row : \E at : GoTo(c, at, [place |-> call[c].x.place, force |-> call[c].x.force,
                                               art |-> a, row |-> row])
          BY <4>1 DEF FindArticle
        <5>2. QED
          BY <5>1
      <4>2. CASE Archive(c)
        BY <4>2 DEF Archive
      <4>3. QED
        BY <2>5, <4>1, <4>2
    <3>2. p = call[c].x.place /\ ~call[c].x.force
      BY <1>1, <1>3, <1>4, <2>1, <3>1, GoesTo
    <3>3. Unwarned(c)
      BY <2>5, <3>2 DEF Unwarned, Removing, FindArticle, Archive
    <3>4. QED
      BY <1>1, <2>3, <3>2, <3>3 DEF Warned
  <2>6. QED
    BY <2>1, <2>4, <2>5
<1>9. QED
  BY <1>1, <1>3, <1>6, <1>7, <1>8, CallStep

LEMMA ResolveNext ==
  ASSUME DeletionsAlone, ResolveInv, [Next]_vars
  PROVE  ResolveInv'
<1>1. CreationsApart /\ ListedInv /\ Typed /\ CallsTyped
  BY DeletionsAreApart DEF ResolveInv, ListedInv, Typed
<1>2. ListedInv' /\ Fresh' /\ Vetted' /\ Warned'
  BY <1>1, ListedNext, FreshNext, VettedNext, WarnedNext
<1>3. ASSUME NEW b \in Articles, There(b)', article'[b].body # None,
             NEW p \in Leads(article'[b].body, article'[b].subjects)
      PROVE  p \in Reachable'
  <2>1. ~NewRow(b)
    BY <1>3, NewIsUnpublished
  <2>2. There(b) /\ article'[b].subjects = article[b].subjects /\ NewBody(b)
    BY <1>1, <1>3, <2>1, KeepsSubjects DEF SameSlug
  <2>3. CASE article'[b].body = article[b].body
    <3>1. p \in Leads(article[b].body, article[b].subjects) /\ PublishedAt(p)
      BY <1>3, <2>2, <2>3 DEF PublishedAt
    <3>2. p \in Reachable
      BY <1>3, <2>2, <2>3, <3>1 DEF ResolveInv, LiveBranchesResolve, Reachable
    <3>3. ~\E c \in Calls : RemoveSymptom(c) /\ call[c].x.place = p /\ Unwarned(c)
      BY <3>1 DEF ResolveInv, Warned
    <3>4. QED
      BY <1>1, <3>2, <3>3, ReachableStep
  <2>4. ASSUME NEW c \in Calls, WritePublished(c), call[c].x.art = b,
               article'[b].body = call[c].x.doc
        PROVE  p \in Reachable'
    <3>1. p \in Leads(call[c].x.doc, article[b].subjects)
      BY <1>3, <2>2, <2>4
    <3>2. p \in Reachable
      BY <2>2, <2>4, <3>1 DEF WritePublished, ResolveInv, Vetted
    <3>3. QED
      BY <2>4, <3>2 DEF WritePublished, Reachable
  <2>5. QED
    BY <2>2, <2>3, <2>4 DEF NewBody
<1>4. LiveBranchesResolve'
  BY <1>3 DEF LiveBranchesResolve, Reachable, There, Leads, Targets
<1>5. QED
  BY <1>2, <1>4 DEF ResolveInv

LEMMA ResolveInit == Init => ResolveInv
<1>1. SUFFICES ASSUME Init
               PROVE  ResolveInv
  OBVIOUS
<1>2. Fresh /\ Vetted /\ Warned
  BY <1>1 DEF Init, Fresh, KnowsNoGhost, Vetted, Warned, Unwarned, Removing, HasRead, At, Idle,
              Library, Snapshot
<1>3. PICK seed \in Seeds : sym = seed.sym /\ article = seed.article
  BY <1>1 DEF Init
<1>4. Authored(seed)
  BY SeedsAssumption
<1>5. LiveBranchesResolve
  BY <1>3, <1>4 DEF Authored, LiveBranchesResolve, There
<1>6. QED
  BY <1>1, <1>2, <1>5, ListedInit DEF ResolveInv

\* A published branch leads somewhere from every subject the article is listed
\* under, unless an administrator deleted its target against the warning (the
\* gate of publishDraft against the snapshot, findLinksTo of deleteSymptom).
THEOREM BranchesResolve == ASSUME DeletionsAlone PROVE Spec => []LiveBranchesResolve
<1>1. ResolveInv /\ [Next]_vars => ResolveInv'
  BY ResolveNext
<1>2. ResolveInv => LiveBranchesResolve
  BY DEF ResolveInv
<1>3. QED
  BY ResolveInit, <1>1, <1>2, PTL DEF Spec
(***************************************************************************)
(* Readers are served what the tables hold, if nothing overlaps but a      *)
(* draft is saved beside it.  What a reload has read is what the tables    *)
(* hold, up to drafts: whoever changes what readers see reloads, and two   *)
(* that reload take turns.                                                 *)
(***************************************************************************)
OnlyDraftsOverlap == \A ops \in Beside : "saveDraft" \in ops

ReadsCurrent ==
  \A c \in Calls :
    /\ HasRead(c, "categories") => call[c].x.read["categories"] = cat
    /\ HasRead(c, "symptoms") => call[c].x.read["symptoms"] = sym
    /\ HasRead(c, "articles") => Published(call[c].x.read["articles"]) = Published(article)

Current == (\A c \in Calls : call[c] = Idle \/ call[c].at # "reload") => served = Library

ServedInv == Typed /\ Apart /\ ReadsCurrent /\ Current

\* What readers see of an article.
Seen(row) == [slug |-> row.slug, subjects |-> row.subjects, body |-> row.body,
              hidden |-> row.hidden]
OnShow(row) == row.state = "there" /\ row.body # None /\ row.subjects # {}

LEMMA SeenAlike ==
  ASSUME NEW f, NEW g,
         \A a \in Articles : OnShow(f[a]) <=> OnShow(g[a]),
         \A a \in Articles : OnShow(f[a]) => Seen(f[a]) = Seen(g[a])
  PROVE  Published(f) = Published(g)
<1>1. \A h : Published(h) = {Seen(h[a]) : a \in {b \in Articles : OnShow(h[b])}}
  BY DEF Published, Seen, OnShow
<1>2. {b \in Articles : OnShow(f[b])} = {b \in Articles : OnShow(g[b])}
  OBVIOUS
<1>3. {Seen(f[a]) : a \in {b \in Articles : OnShow(f[b])}}
        = {Seen(g[a]) : a \in {b \in Articles : OnShow(g[b])}}
  BY <1>2
<1>4. QED
  BY <1>1, <1>3

\* A draft written or cleared changes nothing readers see.
LEMMA DraftUnseen ==
  ASSUME article \in ArtTables, NEW a \in Articles, There(a), NEW doc,
         article' = [article EXCEPT ![a].draft = doc]
  PROVE  Published(article') = Published(article)
<1>1. article[a] \in ArticleRow
  BY RowThere
<1>2. /\ article'[a].state = article[a].state /\ article'[a].slug = article[a].slug
      /\ article'[a].subjects = article[a].subjects /\ article'[a].body = article[a].body
      /\ article'[a].hidden = article[a].hidden
  BY <1>1 DEF ArtTables, ArticleRow
<1>3. \A b \in Articles \ {a} : article'[b] = article[b]
  BY DEF ArtTables
<1>4. \A b \in Articles : (OnShow(article'[b]) <=> OnShow(article[b]))
                            /\ Seen(article'[b]) = Seen(article[b])
  BY <1>2, <1>3 DEF OnShow, Seen
<1>5. QED
  BY <1>4, SeenAlike

\* A step that changes what readers see is a write that goes on to reload.
LEMMA VisibleStep ==
  ASSUME Typed, [Next]_vars
  PROVE  \/ UNCHANGED <<cat, sym>> /\ Published(article') = Published(article)
         \/ \E c \in Calls : call[c] # Idle /\ call[c].op \in Ops \ {"saveDraft"} /\ StartReload(c)
<1>1. CallsTyped /\ article \in ArtTables
  BY DEF Typed, TablesTyped
<1>2. ASSUME NEW c \in Calls, Request(c)
      PROVE  UNCHANGED tables
  BY <1>2, RequestStarts DEF Starts, tables
<1>3. CrashAndBoot \/ UNCHANGED vars => UNCHANGED tables
  BY DEF CrashAndBoot, vars, tables
<1>4. ASSUME NEW c \in Calls, WriteDraft(c) \/ ClearDraft(c)
      PROVE  UNCHANGED <<cat, sym>> /\ Published(article') = Published(article)
  <2>1. call[c].x.art \in Articles /\ There(call[c].x.art)
    BY <1>1, <1>4, WritingLocals DEF WriteDraft, ClearDraft
  <2>2. \E doc : article' = [article EXCEPT ![call[c].x.art].draft = doc]
    BY <1>4 DEF WriteDraft, ClearDraft
  <2>3. QED
    BY <1>1, <1>4, <2>1, <2>2, DraftUnseen DEF WriteDraft, ClearDraft
<1>5. ASSUME NEW c \in Calls,
             \/ InsertCategory(c) \/ InsertSymptom(c) \/ InsertArticle(c) \/ WritePublished(c)
             \/ RemoveUnpublished(c) \/ WriteHidden(c) \/ WriteDisabled(c) \/ RemoveSymptom(c)
             \/ RemoveCategory(c)
      PROVE  call[c] # Idle /\ call[c].op \in Ops \ {"saveDraft"} /\ StartReload(c)
  <2>1. call[c].op # "none" /\ call[c].op \in Ops \ {"saveDraft"} /\ StartReload(c)
    BY <1>5 DEF InsertCategory, InsertSymptom, InsertArticle, WritePublished, RemoveUnpublished,
         WriteHidden, WriteDisabled, RemoveSymptom, RemoveCategory, At, Ops
  <2>2. QED
    BY <2>1 DEF Idle
<1>6. ASSUME NEW c \in Calls,
             \/ FindLinks(c) \/ FindArticle(c) \/ Archive(c) \/ Fail(c) \/ Install(c)
             \/ \E t \in Tables : ReadTable(c, t)
      PROVE  UNCHANGED tables
  BY <1>6 DEF FindLinks, FindArticle, Archive, Fail, Install, ReadTable
<1>7. UNCHANGED tables => UNCHANGED <<cat, sym>> /\ Published(article') = Published(article)
  BY DEF tables
<1>8. QED
  BY <1>2, <1>3, <1>4, <1>5, <1>6, <1>7 DEF Next, Continue

LEMMA ReadsCurrentNext ==
  ASSUME OnlyDraftsOverlap, ServedInv, [Next]_vars
  PROVE  ReadsCurrent'
<1>1. Typed /\ CallsTyped /\ Apart /\ ReadsCurrent
  BY DEF ServedInv, Typed
<1>2. ASSUME NEW c \in Calls, call[c] # Idle, call[c].at = "reload", call'[c] = call[c],
             ~(UNCHANGED <<cat, sym>> /\ Published(article') = Published(article)),
             NEW t \in Tables, HasRead(c, t)
      PROVE  FALSE
  <2>1. PICK d \in Calls : /\ call[d] # Idle /\ call[d].op \in Ops \ {"saveDraft"}
                           /\ StartReload(d)
    BY <1>1, <1>2, VisibleStep
  <2>2. CASE d = c
    <3>1. call'[c].x = [todo |-> Tables, read |-> [u \in Tables |-> None]]
      BY <1>1, <2>1, <2>2, GoesTo DEF StartReload
    <3>2. QED
      BY <1>2, <3>1 DEF HasRead
  <2>3. CASE d # c
    <3>1. call[c].op # "saveDraft"
      BY <1>1, <1>2, ReloadLocals
    <3>2. {call[c].op, call[d].op} \in Beside
      BY <1>1, <1>2, <2>1, <2>3 DEF Apart
    <3>3. QED
      BY <2>1, <3>1, <3>2 DEF OnlyDraftsOverlap
  <2>4. QED
    BY <2>2, <2>3
<1>3. ASSUME NEW c \in Calls, NEW t \in Tables, HasRead(c, t)'
      PROVE  \/ /\ UNCHANGED <<cat, sym>> /\ Published(article') = Published(article)
                /\ HasRead(c, t) /\ call'[c].x.read[t] = call[c].x.read[t]
             \/ UNCHANGED tables /\ call'[c].x.read[t] = Contents(t)
  <2>1. CASE call'[c] = call[c] /\ HasRead(c, t)
    BY <1>2, <2>1 DEF HasRead
  <2>2. QED
    BY <1>1, <1>3, <2>1, ReadStep DEF tables
<1>4. ASSUME NEW c \in Calls, HasRead(c, "categories")'
      PROVE  call'[c].x.read["categories"] = cat'
  BY <1>1, <1>3, <1>4 DEF ReadsCurrent, Contents, tables, Tables
<1>5. ASSUME NEW c \in Calls, HasRead(c, "symptoms")'
      PROVE  call'[c].x.read["symptoms"] = sym'
  BY <1>1, <1>3, <1>5 DEF ReadsCurrent, Contents, tables, Tables
<1>6. ASSUME NEW c \in Calls, HasRead(c, "articles")'
      PROVE  Published(call'[c].x.read["articles"]) = Published(article')
  BY <1>1, <1>3, <1>6 DEF ReadsCurrent, Contents, tables, Tables
<1>7. QED
  BY <1>4, <1>5, <1>6 DEF ReadsCurrent, Published

LEMMA CurrentNext ==
  ASSUME ServedInv, [Next]_vars
  PROVE  Current'
<1>1. Typed /\ CallsTyped /\ ReadsCurrent /\ Current
  BY DEF ServedInv, Typed
<1>2. SUFFICES ASSUME \A c \in Calls : call'[c] = Idle \/ call'[c].at # "reload"
               PROVE  served' = Library'
  BY DEF Current
<1>3. CASE CrashAndBoot
  BY <1>3 DEF CrashAndBoot, Library, Snapshot, Published, tables
<1>4. ASSUME NEW c \in Calls, Install(c)
      PROVE  served' = Library'
  <2>1. /\ HasRead(c, "categories") /\ HasRead(c, "symptoms") /\ HasRead(c, "articles")
        /\ UNCHANGED tables
    BY <1>4 DEF Install, HasRead
  <2>2. Snapshot(call[c].x.read) = Library
    BY <1>1, <2>1 DEF ReadsCurrent, Snapshot, Library
  <2>3. Library' = Library
    BY <2>1 DEF Library, Snapshot, Published, tables
  <2>4. QED
    BY <1>4, <2>2, <2>3 DEF Install
<1>5. CASE ~CrashAndBoot /\ \A c \in Calls : ~Install(c)
  <2>1. served' = served /\ \A c \in Calls : call[c] = Idle \/ call[c].at # "reload"
    BY <1>1, <1>2, <1>5, ServedStays
  <2>2. ASSUME NEW c \in Calls, call[c] # Idle, StartReload(c)
        PROVE  FALSE
    <3>1. call'[c].at = "reload" /\ call'[c].op = call[c].op
      BY <1>1, <2>2, GoesTo DEF StartReload
    <3>2. call[c].op # "none" /\ Idle.op = "none"
      BY <1>1, <2>2, InFlight DEF Idle
    <3>3. QED
      BY <1>2, <3>1, <3>2
  <2>3. UNCHANGED <<cat, sym>> /\ Published(article') = Published(article)
    BY <1>1, <2>2, VisibleStep
  <2>4. Library' = Library
    BY <2>3 DEF Library, Snapshot, Published
  <2>5. QED
    BY <1>1, <2>1, <2>4 DEF Current
<1>6. QED
  BY <1>3, <1>4, <1>5

\* When no write is under way, readers are served what the tables hold (the
\* reload every write ends with).
THEOREM ReadersAreServedTheLibrary == ASSUME OnlyDraftsOverlap PROVE Spec => []ServedIsLibrary
<1>1. Init => ServedInv
  <2>1. SUFFICES ASSUME Init
                 PROVE  ServedInv
    OBVIOUS
  <2>2. Apart /\ ReadsCurrent /\ Current
    BY <2>1 DEF Init, Apart, ReadsCurrent, HasRead, Current
  <2>3. QED
    BY <2>1, <2>2, TypedInit DEF ServedInv
<1>2. ServedInv /\ [Next]_vars => ServedInv'
  BY TypedNext, ApartNext, ReadsCurrentNext, CurrentNext DEF ServedInv
<1>3. ServedInv => ServedIsLibrary
  BY DEF ServedInv, Current, ServedIsLibrary
<1>4. QED
  BY <1>1, <1>2, <1>3, PTL DEF Spec
=============================================================================
