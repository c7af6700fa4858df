------------------------------- MODULE Library -------------------------------
(* The law library: splitting a law's text into clauses                     *)
(* (tools/legal_splitter.py), importing one law or a batch in one session   *)
(* (services/legal_library.py, api/v1/legal.py), status changes, and what   *)
(* the retrieval of a review finds (tools/rag.py).  A line of a text is its *)
(* kind; headings and contents are line numbers.                            *)
EXTENDS Naturals, Sequences, Functions

CONSTANTS MaxLines, MaxBatch   \* bounds: lines read and laws imported in a behaviour

VARIABLES library, import,
          linesRead, told, byHand   \* told, byHand: history

ASSUME LibraryAssumption == MaxLines \in Nat /\ MaxBatch \in Nat

lawLibrary == <<library, import, linesRead, told, byHand>>

(* "space": a line of white space only.  It has no content, like an empty   *)
(* one, but is none; so are the empty lines of a text with \r\n.            *)
Blanks == {"blank", "space"}
Kinds == {"chapter", "section", "article", "bare", "body"} \cup Blanks
LawStatus == {"draft", "effective", "amended", "repealed", "expired"}

Heading == 0..MaxLines
Clause == [chapter : Heading, section : Heading, article : Heading, lines : Seq(1..MaxLines)]
Splitter == [text : Seq(Kinds), chapter : Heading, section : Heading,
             open : BOOLEAN, clause : Clause, clauses : Seq(Clause), paragraphs : Seq(Clause)]
LegalDocument == [status : LawStatus, future : BOOLEAN, text : Seq(Kinds), clauses : Seq(Clause)]

NoClause == [chapter |-> 0, section |-> 0, article |-> 0, lines |-> <<>>]
NewSplitter == [text |-> <<>>, chapter |-> 0, section |-> 0,
                open |-> FALSE, clause |-> NoClause, clauses |-> <<>>, paragraphs |-> <<>>]
NoImport == [pc |-> "idle", batch |-> FALSE, split |-> NewSplitter,
             pending |-> <<>>, succeeded |-> 0, failed |-> 0, poisoned |-> FALSE]

InitLibrary ==
    /\ library = <<>> /\ import = NoImport
    /\ linesRead = 0 /\ told = 0 /\ byHand = {}
-----------------------------------------------------------------------------
(* --- split_law ---------------------------------------------------------- *)

(* _flush_article: an open clause without content is dropped.               *)
FlushArticle(s) ==
    [s EXCEPT !.clauses = IF s.open /\ s.clause.lines # <<>> THEN Append(@, s.clause) ELSE @,
              !.open = FALSE, !.clause = NoClause]

OpenClause(s, chapter, section, article, lines) ==
    [s EXCEPT !.open = TRUE,
              !.clause = [chapter |-> chapter, section |-> section,
                          article |-> article, lines |-> lines]]

(* Fault: the section stays.                                              *)
KeepSection(s, n) == [FlushArticle(s) EXCEPT !.chapter = n]
NewChapter(s, n) == [FlushArticle(s) EXCEPT !.chapter = n, !.section = 0]

(* The paragraphs of the text so far, which empty lines separate, as the    *)
(* text came (no \r\n replaced).                                            *)
ParagraphEnds(text) ==
    \A i \in DOMAIN text : text[i] \notin Blanks => \E j \in i..Len(text) : text[j] = "blank"
AddToParagraphs(s, n) ==
    IF ParagraphEnds(s.text)
    THEN Append(s.paragraphs, [NoClause EXCEPT !.lines = <<n>>])
    ELSE [s.paragraphs EXCEPT ![Len(s.paragraphs)].lines = Append(@, n)]

(* One line of the text; "bare" is an article heading without text (or with *)
(* a title only), and content before any article is a preface.              *)
Scan(s, kind) ==
    LET n == Len(s.text) + 1
        r == [s EXCEPT !.text = Append(@, kind),
                       !.paragraphs = IF kind \in Blanks THEN @ ELSE AddToParagraphs(s, n)]
    IN  CASE kind \in Blanks  -> r
          [] kind = "chapter" -> NewChapter(r, n)
          [] kind = "section" -> [FlushArticle(r) EXCEPT !.section = n]
          [] kind = "article" -> OpenClause(FlushArticle(r), r.chapter, r.section, n, <<n>>)
          [] kind = "bare"    -> OpenClause(FlushArticle(r), r.chapter, r.section, n, <<>>)
          [] kind = "body"    -> IF s.open THEN [r EXCEPT !.clause.lines = Append(@, n)]
                                 ELSE OpenClause(r, 0, 0, 0, <<n>>)

(* Without any clause: the paragraphs.                                      *)
Clauses(s) ==
    LET clauses == FlushArticle(s).clauses
    IN  IF clauses = <<>> THEN s.paragraphs ELSE clauses
-----------------------------------------------------------------------------
(* --- import ------------------------------------------------------------- *)

ImportedLaws == Len(library) + import.succeeded + import.failed

StartImport(batch) ==
    /\ import.pc = "idle" /\ ImportedLaws < MaxBatch
    /\ import' = [NoImport EXCEPT !.pc = "reading", !.batch = batch]
    /\ UNCHANGED <<library, linesRead, told, byHand>>

ReadLine(kind) ==
    /\ import.pc = "reading" /\ linesRead < MaxLines
    /\ import' = [import EXCEPT !.split = Scan(@, kind)]
    /\ linesRead' = linesRead + 1
    /\ UNCHANGED <<library, told, byHand>>

(* An entry fails: a text without lines, the embedding provider, or the     *)
(* insert, after which the session refuses all further work.  One law: the  *)
(* session rolls back; a batch: the loop goes on.                           *)
Refuses == \A i \in DOMAIN import.split.text : import.split.text[i] \in Blanks
EntryFails(insert) ==
    /\ import.pc = "reading"
    /\ import' = IF import.batch
                 THEN [import EXCEPT !.pc = "entry", !.split = NewSplitter, !.failed = @ + 1,
                                     !.poisoned = @ \/ insert]
                 ELSE NoImport
    /\ UNCHANGED <<library, linesRead, told, byHand>>

(* Fault: the effective date is not looked at.                            *)
AlwaysEffective(future) == "effective"

(* Split, embedded, law and clauses flushed: draft if it takes effect       *)
(* later.                                                                   *)
ImportStatus(future) == IF future THEN "draft" ELSE "effective"
ImportLaw(future) ==
    /\ import.pc = "reading" /\ ~Refuses /\ ~import.poisoned
    /\ import' = [import EXCEPT !.pc = IF import.batch THEN "entry" ELSE "commit",
                    !.split = NewSplitter, !.succeeded = @ + 1,
                    !.pending = Append(@, [status |-> ImportStatus(future), future |-> future,
                                           text |-> import.split.text,
                                           clauses |-> Clauses(import.split)])]
    /\ UNCHANGED <<library, linesRead, told, byHand>>

NextEntry ==
    /\ import.pc = "entry"
    /\ \/ ImportedLaws < MaxBatch /\ import' = [import EXCEPT !.pc = "reading"]
       \/ import' = [import EXCEPT !.pc = "commit"]
    /\ UNCHANGED <<library, linesRead, told, byHand>>

(* Fault: nothing is stored.                                              *)
CommitNothing(rows, pending) == rows

(* One commit for everything; a poisoned session cannot commit.             *)
StoreLaws(rows, pending) == rows \o pending
CommitImport ==
    /\ import.pc = "commit"
    /\ IF import.poisoned
       THEN library' = library /\ import' = NoImport
       ELSE library' = StoreLaws(library, import.pending)
            /\ import' = [import EXCEPT !.pc = "audit", !.pending = <<>>]
    /\ UNCHANGED <<linesRead, told, byHand>>

(* The audit row is flushed after the commit, and lost; if the flush fails  *)
(* the client is told of a failure.                                         *)
AnswerImport(ok) ==
    /\ import.pc = "audit"
    /\ told' = told + IF ok THEN import.succeeded ELSE 0
    /\ import' = NoImport
    /\ UNCHANGED <<library, linesRead, byHand>>

RestartLibrary == import' = NoImport /\ UNCHANGED <<library, linesRead, told, byHand>>
-----------------------------------------------------------------------------
(* --- status and retrieval ------------------------------------------------ *)

(* update_law_status: any status may follow any other.                      *)
UpdateLawStatus(l, status) ==
    /\ l \in DOMAIN library /\ library[l].status # status
    /\ library' = [library EXCEPT ![l].status = status]
    /\ byHand' = byHand \cup {l}
    /\ UNCHANGED <<import, linesRead, told>>

(* check_time_validity of a law past its date flushes "expired"; the route  *)
(* does not commit.                                                         *)
Expired(l) == [library EXCEPT ![l].status = "expired"]
Discarded(rows, flushed) == rows
CheckTimeValidity(l) ==
    /\ l \in DOMAIN library /\ library[l].status = "effective"
    /\ library' = Discarded(library, Expired(l))
    /\ UNCHANGED <<import, linesRead, told, byHand>>

(* search_simple joins clauses to laws that are effective.                  *)
Retrievable == {l \in DOMAIN library : library[l].status = "effective" /\ library[l].clauses # <<>>}
-----------------------------------------------------------------------------
LibraryOK ==
    /\ library \in Seq(LegalDocument)
    /\ import.pc \in {"idle", "reading", "entry", "commit", "audit"}
    /\ import.split \in Splitter /\ import.pending \in Seq(LegalDocument)
    /\ linesRead \in 0..MaxLines /\ told \in Nat /\ byHand \subseteq DOMAIN library

(* What splitting promises of a text: every line with content is in one     *)
(* clause, once and in order, an article's clause has the article's lines   *)
(* only, and carries the chapter and the section the article stands in.     *)
LastBefore(text, i, kinds, from, h) ==    \* h: the last line of these kinds up to i, 0 if none
    /\ h = 0 \/ (h \in from..i /\ text[h] \in kinds)
    /\ \A j \in from..i : j > h => text[j] \notin kinds
ContentLines(text) ==
    LET content == {i \in DOMAIN text : text[i] \in {"article", "body"}}
    IN  IF content = {} THEN {i \in DOMAIN text : text[i] \notin Blanks} ELSE content
Headings == {"chapter", "section", "article", "bare"}
InOrder(clauses) ==
    \A c, d \in DOMAIN clauses : \A i \in DOMAIN clauses[c].lines, j \in DOMAIN clauses[d].lines :
        c < d \/ (c = d /\ i < j) => clauses[c].lines[i] < clauses[d].lines[j]
ClauseRight(text, clause) ==
    clause.article > 0 =>
        /\ text[clause.article] \in {"article", "bare"}
        /\ \A i \in Range(clause.lines) : LastBefore(text, i, Headings, 1, clause.article)
        /\ LastBefore(text, clause.article, {"chapter"}, 1, clause.chapter)
        /\ LastBefore(text, clause.article, {"section"}, clause.chapter, clause.section)
SplitRight(law) ==
    /\ UNION {Range(law.clauses[c].lines) : c \in DOMAIN law.clauses} = ContentLines(law.text)
    /\ InOrder(law.clauses)
    /\ \A c \in DOMAIN law.clauses : ClauseRight(law.text, law.clauses[c])

(* Every stored law has its clauses, whatever failed around it in its       *)
(* batch, and they are its text.                                            *)
LawsAreSplit == \A l \in DOMAIN library : library[l].clauses # <<>> /\ SplitRight(library[l])
=============================================================================
