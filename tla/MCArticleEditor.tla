--------------------------- MODULE MCArticleEditor ---------------------------
(* Instances of ArticleEditor.                                               *)
EXTENDS ArticleEditor, TLC

\* Calls and edits are each interchangeable.
Alike == Permutations(Calls) \union Permutations(Edits)

\* Bounds of the run with two tabs.  Either one tab is in use and does all it can,
\* or a second one is opened on the published article before anything is typed;
\* then both stay open, and type, save and publish: nothing is discarded and
\* nothing else of the library is changed.  Steps that change nothing are not followed.
First == CHOOSE t \in Tabs : TRUE
BothOpen == \A t \in Tabs : page[t].on

OpensEarly ==
  \A t \in Tabs \ {First} : ~page[t].on /\ page'[t].on =>
    /\ page[First].on /\ \A c \in Calls : call[c] = Idle
    /\ typed = {} /\ article # None /\ article.body # None /\ clock = 1

OnlyPublish ==
  BothOpen =>
    /\ \A t \in Tabs : page'[t].on /\ (cache' # cache => ~Elsewhere(t))
    /\ \A c \in Calls : call'[c].op # "discard"

\* A discard is begun when nothing is in flight; what is begun after it crosses it.
DiscardsFirst ==
  \A c \in Calls : call[c] = Idle /\ call'[c].op \in {"discard", "drop"} =>
    \A d \in Calls : call[d] = Idle

OneOrTwoTabs == vars' # vars /\ DiscardsFirst /\ OpensEarly /\ OnlyPublish
==============================================================================
