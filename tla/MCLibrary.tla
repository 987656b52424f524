------------------------------ MODULE MCLibrary ------------------------------
(* Instances of Library for TLC: two subjects, a category of each, and an      *)
(* article that both subjects list or that is to be written.                   *)
EXTENDS Library, TLC

CONSTANTS laptop, dock, x, y, kl, kd, a1

MCSubjectOf == [k \in Categories |-> IF k = kl THEN laptop ELSE dock]

\* y is a symptom of laptops only.
MCPlaces == {<<laptop, x>>, <<dock, x>>, <<laptop, y>>}

\* To y where the reader is.
NearDocs == {{}, {[to |-> y, under |-> None]}}

\* The symptom x of both subjects, answered by one article or not at all.
Answered == [a \in Articles |-> Row(x, Subjects, {}, None)]
Unanswered == [a \in Articles |-> Unborn]
MCSeeds ==
  {[cat |-> [k \in Categories |-> "listed"],
    sym |-> [p \in Places |-> IF p[2] = y THEN None ELSE IF p[1] = laptop THEN kl ELSE kd],
    article |-> rows] : rows \in {Answered, Unanswered}}

\* A draft is saved beside an operation of its article; the others are left to
\* themselves, since reloads that overlap may install the older tables last.
MCBeside == {{"saveDraft", op} : op \in {"saveDraft", "publishDraft", "discardDraft", "setHidden"}}

RequestsAlike == Permutations(Calls)
=============================================================================
