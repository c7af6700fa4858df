---------------------------- MODULE LibraryProofs ----------------------------
(* That split_law files every line of every text where it belongs, and what *)
(* every step of module Library keeps, whatever surrounds it (module        *)
(* PlatformProofs): lemmas for any bound on texts and imports.              *)
EXTENDS Library, SequenceTheorems, TLAPS

LEMMA Appended ==
    ASSUME NEW S, NEW q \in Seq(S), NEW e \in S
    PROVE  /\ Append(q, e) \in Seq(S) /\ Len(Append(q, e)) = Len(q) + 1
           /\ DOMAIN Append(q, e) = DOMAIN q \cup {Len(q) + 1}
           /\ DOMAIN q = 1..Len(q) /\ Len(q) \in Nat
           /\ Append(q, e)[Len(q) + 1] = e
           /\ \A i \in DOMAIN q : Append(q, e)[i] = q[i]
           /\ Range(Append(q, e)) = Range(q) \cup {e}
<1>1. /\ Append(q, e) \in Seq(S) /\ Len(Append(q, e)) = Len(q) + 1
      /\ DOMAIN q = 1..Len(q) /\ Len(q) \in Nat
      /\ Append(q, e)[Len(q) + 1] = e
      /\ \A i \in DOMAIN q : Append(q, e)[i] = q[i]
  OBVIOUS
<1>2. DOMAIN Append(q, e) = DOMAIN q \cup {Len(q) + 1}
  BY <1>1
<1>3. Range(Append(q, e)) = Range(q) \cup {e}
  BY <1>1, <1>2 DEF Range
<1> QED
  BY <1>1, <1>2, <1>3

(* --- lines and headings --------------------------------------------------- *)

Ordered(q) == \A i, j \in DOMAIN q : i < j => q[i] < q[j]
Precedes(q, r) == \A i \in DOMAIN q, j \in DOMAIN r : q[i] < r[j]

LEMMA OrderIs ==
    ASSUME NEW clauses \in Seq(Clause)
    PROVE  InOrder(clauses) <=>
             /\ \A c \in DOMAIN clauses : Ordered(clauses[c].lines)
             /\ \A c, d \in DOMAIN clauses : c < d => Precedes(clauses[c].lines, clauses[d].lines)
BY DEF InOrder, Ordered, Precedes

LEMMA OrderedAppend ==
    ASSUME NEW q \in Seq(1..MaxLines), Ordered(q), NEW n \in 1..MaxLines, \A i \in Range(q) : i < n
    PROVE  Ordered(Append(q, n))
BY Appended DEF Ordered, Range

LEMMA InOrderAppend ==
    ASSUME NEW clauses \in Seq(Clause), InOrder(clauses),
           NEW clause \in Clause, Ordered(clause.lines),
           \A c \in DOMAIN clauses : Precedes(clauses[c].lines, clause.lines)
    PROVE  InOrder(Append(clauses, clause))
<1>1. PICK b : b = Append(clauses, clause)
  OBVIOUS
<1>2. /\ b \in Seq(Clause) /\ DOMAIN b = DOMAIN clauses \cup {Len(clauses) + 1}
      /\ DOMAIN clauses = 1..Len(clauses) /\ Len(clauses) \in Nat
      /\ b[Len(clauses) + 1] = clause /\ \A c \in DOMAIN clauses : b[c] = clauses[c]
  BY <1>1, Appended
<1>3. \A c \in DOMAIN b : Ordered(b[c].lines)
  BY <1>2, OrderIs
<1>4. \A c, d \in DOMAIN b : c < d => Precedes(b[c].lines, b[d].lines)
  <2> SUFFICES ASSUME NEW c \in DOMAIN b, NEW d \in DOMAIN b, c < d
               PROVE  Precedes(b[c].lines, b[d].lines)
    OBVIOUS
  <2>1. c \in DOMAIN clauses
    BY <1>2
  <2> QED
    BY <1>2, <2>1, OrderIs
<1> QED
  BY <1>1, <1>2, <1>3, <1>4, OrderIs

(* Which heading a line stands under does not change as the text grows; the *)
(* new line stands under itself or under what the line before it does.      *)
LEMMA HeadingsStay ==
    ASSUME NEW text \in Seq(Kinds), NEW kind \in Kinds, NEW kinds,
           NEW from \in Nat, NEW i \in 0..Len(text), NEW h \in Nat,
           LastBefore(text, i, kinds, from, h)
    PROVE  LastBefore(Append(text, kind), i, kinds, from, h)
BY Appended DEF LastBefore

LEMMA HeadingsPass ==
    ASSUME NEW text \in Seq(Kinds), NEW kind \in Kinds, NEW kinds, kind \notin kinds,
           NEW from \in Nat, NEW h \in Nat,
           LastBefore(text, Len(text), kinds, from, h)
    PROVE  LastBefore(Append(text, kind), Len(text) + 1, kinds, from, h)
<1>1. /\ DOMAIN text = 1..Len(text) /\ Len(text) \in Nat
      /\ Append(text, kind)[Len(text) + 1] = kind
      /\ \A j \in DOMAIN text : Append(text, kind)[j] = text[j]
  BY Appended
<1> QED
  BY <1>1 DEF LastBefore

LEMMA HeadingIsNew ==
    ASSUME NEW text \in Seq(Kinds), NEW kind \in Kinds, NEW kinds, kind \in kinds,
           NEW from \in 0..Len(text) + 1
    PROVE  LastBefore(Append(text, kind), Len(text) + 1, kinds, from, Len(text) + 1)
<1>1. Len(text) \in Nat /\ Append(text, kind)[Len(text) + 1] = kind
  BY Appended
<1> QED
  BY <1>1 DEF LastBefore

(* A clause is filed in a text.                                             *)
Filed(text, clause) ==
    /\ clause.article \in 0..Len(text) /\ clause.chapter \in Nat /\ clause.section \in Nat
    /\ Range(clause.lines) \subseteq DOMAIN text /\ Ordered(clause.lines)
    /\ ClauseRight(text, clause)

LEMMA FiledStays ==
    ASSUME NEW text \in Seq(Kinds), NEW kind \in Kinds, NEW clause, Filed(text, clause)
    PROVE  Filed(Append(text, kind), clause)
<1>1. /\ DOMAIN text = 1..Len(text) /\ Len(text) \in Nat
      /\ Len(Append(text, kind)) = Len(text) + 1
      /\ DOMAIN Append(text, kind) = DOMAIN text \cup {Len(text) + 1}
      /\ \A j \in DOMAIN text : Append(text, kind)[j] = text[j]
  BY Appended
<1>2. ClauseRight(Append(text, kind), clause)
  <2> SUFFICES ASSUME clause.article > 0 PROVE ClauseRight(Append(text, kind), clause)
    BY DEF ClauseRight
  <2>1. /\ clause.article \in 1..Len(text) /\ clause.chapter \in Nat /\ clause.section \in Nat
        /\ Range(clause.lines) \subseteq 0..Len(text)
    BY <1>1 DEF Filed
  <2>2. /\ text[clause.article] \in {"article", "bare"}
        /\ \A i \in Range(clause.lines) : LastBefore(text, i, Headings, 1, clause.article)
        /\ LastBefore(text, clause.article, {"chapter"}, 1, clause.chapter)
        /\ LastBefore(text, clause.article, {"section"}, clause.chapter, clause.section)
    BY DEF Filed, ClauseRight
  <2>3. \A i \in Range(clause.lines) : LastBefore(Append(text, kind), i, Headings, 1, clause.article)
    BY <2>1, <2>2, HeadingsStay
  <2>4. LastBefore(Append(text, kind), clause.article, {"chapter"}, 1, clause.chapter)
    BY <2>1, <2>2, HeadingsStay
  <2>5. LastBefore(Append(text, kind), clause.article, {"section"}, clause.chapter, clause.section)
    BY <2>1, <2>2, HeadingsStay
  <2> QED
    BY <1>1, <2>1, <2>2, <2>3, <2>4, <2>5 DEF ClauseRight
<1> QED
  BY <1>1, <1>2 DEF Filed

(* --- split_law ------------------------------------------------------------ *)

(* The clauses closed and the open one are filed, and every line of it is    *)
(* later than theirs.                                                        *)
Held(s) ==
    /\ \A c \in DOMAIN s.clauses : Filed(s.text, s.clauses[c]) /\ s.clauses[c].lines # <<>>
    /\ InOrder(s.clauses)
    /\ Filed(s.text, s.clause)
    /\ \A c \in DOMAIN s.clauses : Precedes(s.clauses[c].lines, s.clause.lines)
    /\ ~s.open => s.clause.lines = <<>>

(* The open article is the last heading, and the chapter and the section are *)
(* those the end of the text stands in.                                      *)
Current(s) ==
    LET n == Len(s.text) IN
    /\ s.open /\ s.clause.article > 0 => LastBefore(s.text, n, Headings, 1, s.clause.article)
    /\ LastBefore(s.text, n, {"chapter"}, 1, s.chapter)
    /\ LastBefore(s.text, n, {"section"}, s.chapter, s.section)

FiledLine(s, i) == i \in Range(s.clause.lines) \/ \E c \in DOMAIN s.clauses : i \in Range(s.clauses[c].lines)
Complete(s) == \A i \in DOMAIN s.text : FiledLine(s, i) <=> s.text[i] \in {"article", "body"}

ParagraphsRight(s) ==
    /\ \A p \in DOMAIN s.paragraphs :
        /\ s.paragraphs[p].lines # <<>> /\ s.paragraphs[p].article = 0
        /\ Range(s.paragraphs[p].lines) \subseteq DOMAIN s.text
    /\ InOrder(s.paragraphs)
    /\ \A i \in DOMAIN s.text :
        (\E p \in DOMAIN s.paragraphs : i \in Range(s.paragraphs[p].lines)) <=> s.text[i] \notin Blanks

SplitInv(s) == s \in Splitter /\ Held(s) /\ Current(s) /\ Complete(s) /\ ParagraphsRight(s)

LEMMA NoClauseIs ==
    /\ NoClause \in Clause /\ NoClause.lines = <<>> /\ NoClause.article = 0
    /\ NoClause.chapter = 0 /\ NoClause.section = 0
    /\ \A text \in Seq(Kinds) : Filed(text, NoClause)
<1>1. /\ NoClause \in Clause /\ NoClause.lines = <<>> /\ NoClause.article = 0
      /\ NoClause.chapter = 0 /\ NoClause.section = 0
  BY LibraryAssumption DEF NoClause, Clause, Heading
<1>2. \A text \in Seq(Kinds) : 0 \in 0..Len(text)
  OBVIOUS
<1> QED
  BY <1>1, <1>2 DEF Filed, ClauseRight, Ordered, Range


LEMMA EmptySplit == SplitInv(NewSplitter) /\ NewSplitter.text = <<>>
<1>1. PICK s : s = NewSplitter
  OBVIOUS
<1>2. /\ s.text = <<>> /\ s.chapter = 0 /\ s.section = 0 /\ s.open = FALSE
      /\ s.clause = NoClause /\ s.clauses = <<>> /\ s.paragraphs = <<>>
  BY <1>1 DEF NewSplitter
<1>3. s \in Splitter
  BY <1>1, NoClauseIs, LibraryAssumption DEF NewSplitter, Splitter, Heading
<1>4. Held(s)
  <2>1. Filed(s.text, s.clause) /\ s.clause.lines = <<>>
    BY <1>2, <1>3, NoClauseIs DEF Splitter
  <2>2. DOMAIN s.clauses = {}
    BY <1>2
  <2> QED
    BY <2>1, <2>2 DEF Held, InOrder
<1>5. Current(s)
  BY <1>2 DEF Current, LastBefore
<1>6. Complete(s) /\ ParagraphsRight(s)
  BY <1>2 DEF Complete, ParagraphsRight, InOrder
<1> QED
  BY <1>1, <1>2, <1>3, <1>4, <1>5, <1>6 DEF SplitInv

(* Flushing loses no line.                                                  *)
LEMMA FlushHeld ==
    ASSUME NEW s \in Splitter, Held(s)
    PROVE  LET f == FlushArticle(s) IN
           /\ f \in Splitter /\ Held(f) /\ ~f.open /\ f.clause = NoClause
           /\ f.text = s.text /\ f.chapter = s.chapter /\ f.section = s.section
           /\ f.paragraphs = s.paragraphs
           /\ \A i : FiledLine(f, i) <=> FiledLine(s, i)
<1>1. PICK f : f = FlushArticle(s)
  OBVIOUS
<1>2. /\ f.clauses = IF s.open /\ s.clause.lines # <<>> THEN Append(s.clauses, s.clause) ELSE s.clauses
      /\ f.open = FALSE /\ f.clause = NoClause
      /\ f.text = s.text /\ f.chapter = s.chapter /\ f.section = s.section
      /\ f.paragraphs = s.paragraphs
  BY <1>1 DEF FlushArticle, Splitter
<1>3. s.clauses \in Seq(Clause) /\ s.clause \in Clause /\ s.text \in Seq(Kinds)
  BY DEF Splitter
<1>4. f.clauses \in Seq(Clause)
  BY <1>2, <1>3
<1>5. f \in Splitter
  <2>1. f = [s EXCEPT !.clauses = f.clauses, !.open = FALSE, !.clause = NoClause]
    BY <1>1, <1>2 DEF FlushArticle, Splitter
  <2> QED
    BY <2>1, <1>4, NoClauseIs DEF Splitter
<1>6. CASE s.open /\ s.clause.lines # <<>>
  <2>1. /\ DOMAIN f.clauses = DOMAIN s.clauses \cup {Len(s.clauses) + 1}
        /\ f.clauses[Len(s.clauses) + 1] = s.clause
        /\ \A c \in DOMAIN s.clauses : f.clauses[c] = s.clauses[c]
    BY <1>2, <1>3, <1>6, Appended
  <2>2. InOrder(f.clauses)
    BY <1>2, <1>3, <1>6, InOrderAppend DEF Held, Filed
  <2>3. \A c \in DOMAIN f.clauses : Filed(f.text, f.clauses[c]) /\ f.clauses[c].lines # <<>>
    BY <1>2, <1>6, <2>1 DEF Held
  <2>4. Held(f)
    BY <1>2, <1>3, <2>2, <2>3, NoClauseIs DEF Held, Precedes
  <2>5. \A i : FiledLine(f, i) <=> FiledLine(s, i)
    BY <1>2, <2>1, NoClauseIs DEF FiledLine, Range
  <2> QED
    BY <1>1, <1>2, <1>5, <2>4, <2>5
<1>7. CASE ~(s.open /\ s.clause.lines # <<>>)
  <2>1. f.clauses = s.clauses /\ s.clause.lines = <<>>
    BY <1>2, <1>7 DEF Held
  <2>2. Held(f)
    BY <1>2, <1>3, <2>1, NoClauseIs DEF Held, Precedes
  <2>3. \A i : FiledLine(f, i) <=> FiledLine(s, i)
    BY <1>2, <2>1, NoClauseIs DEF FiledLine, Range
  <2> QED
    BY <1>1, <1>2, <1>5, <2>2, <2>3
<1> QED
  BY <1>6, <1>7

(* A line more, before it is filed.                                         *)
Longer(s, r, kind) ==
    /\ r.text = Append(s.text, kind) /\ r.chapter = s.chapter /\ r.section = s.section
    /\ r.open = s.open /\ r.clause = s.clause /\ r.clauses = s.clauses

LEMMA HeldLonger ==
    ASSUME NEW s \in Splitter, NEW r, NEW kind \in Kinds, Longer(s, r, kind), Held(s)
    PROVE  Held(r) /\ \A i : FiledLine(r, i) <=> FiledLine(s, i)
<1>1. s.text \in Seq(Kinds) /\ r.clauses = s.clauses /\ r.clause = s.clause
      /\ r.open = s.open /\ r.text = Append(s.text, kind)
  BY DEF Splitter, Longer
<1>2. Filed(r.text, r.clause) /\ \A c \in DOMAIN r.clauses : Filed(r.text, r.clauses[c])
  BY <1>1, FiledStays DEF Held
<1> QED
  BY <1>1, <1>2 DEF Held, FiledLine

(* No line is filed beyond the end of the text.                             *)
LEMMA FiledWithin ==
    ASSUME NEW s \in Splitter, Held(s)
    PROVE  \A i : FiledLine(s, i) => i \in 1..Len(s.text)
<1>1. DOMAIN s.text = 1..Len(s.text)
  BY DEF Splitter
<1> QED
  BY <1>1 DEF Held, Filed, FiledLine


LongerSplit(s, kind) ==
    [s EXCEPT !.text = Append(@, kind),
              !.paragraphs = IF kind \in Blanks THEN @ ELSE AddToParagraphs(s, Len(s.text) + 1)]

LEMMA ParagraphStep ==
    ASSUME NEW s \in Splitter, NEW kind \in Kinds, Len(s.text) < MaxLines, ParagraphsRight(s)
    PROVE  LET r == LongerSplit(s, kind) IN
           r \in Splitter /\ Longer(s, r, kind) /\ ParagraphsRight(r)
<1>1. PICK n : n = Len(s.text) + 1
  OBVIOUS
<1>2. PICK ps : ps = IF kind \in Blanks THEN s.paragraphs ELSE AddToParagraphs(s, n)
  OBVIOUS
<1>3. PICK r : r = LongerSplit(s, kind)
  OBVIOUS
<1>4. r = [s EXCEPT !.text = Append(s.text, kind), !.paragraphs = ps]
  BY <1>1, <1>2, <1>3 DEF LongerSplit, Splitter
<1>5. Longer(s, r, kind) /\ r.paragraphs = ps
  BY <1>4 DEF Longer, Splitter
<1>6. /\ s.text \in Seq(Kinds) /\ s.paragraphs \in Seq(Clause)
      /\ r.text = Append(s.text, kind) /\ r.text \in Seq(Kinds)
      /\ n \in 1..MaxLines /\ n \in Nat
      /\ DOMAIN s.text = 1..n - 1 /\ DOMAIN r.text = DOMAIN s.text \cup {n}
      /\ r.text[n] = kind /\ \A i \in DOMAIN s.text : r.text[i] = s.text[i]
  <2>1. s.text \in Seq(Kinds) /\ s.paragraphs \in Seq(Clause) /\ r.text = Append(s.text, kind)
    BY <1>5 DEF Splitter, Longer
  <2> QED
    BY <1>1, <2>1, Appended, LibraryAssumption
<1>7. ASSUME ps \in Seq(Clause), ParagraphsRight(r)
      PROVE  r \in Splitter /\ Longer(s, r, kind) /\ ParagraphsRight(r)
  BY <1>4, <1>5, <1>6, <1>7 DEF Splitter
<1>8. \A p \in DOMAIN s.paragraphs : \A i \in Range(s.paragraphs[p].lines) : i \in 1..n - 1
  BY <1>6 DEF ParagraphsRight
<1>12. \A p \in DOMAIN s.paragraphs : \A i \in DOMAIN s.paragraphs[p].lines : s.paragraphs[p].lines[i] < n
  <2>1. \A p \in DOMAIN s.paragraphs : \A i \in DOMAIN s.paragraphs[p].lines :
            s.paragraphs[p].lines[i] \in Range(s.paragraphs[p].lines)
    BY DEF Range
  <2>2. \A i \in 1..n - 1 : i < n
    BY <1>6
  <2> QED
    BY <1>8, <2>1, <2>2
<1>9. CASE kind \in Blanks
  <2>1. ps = s.paragraphs
    BY <1>2, <1>9
  <2>2. ParagraphsRight(r)
    BY <1>5, <1>6, <1>8, <1>9, <2>1 DEF ParagraphsRight
  <2> QED
    BY <1>3, <1>6, <1>7, <2>1, <2>2
<1>10. CASE kind \notin Blanks /\ ParagraphEnds(s.text)
  <2>1. PICK q : q = [NoClause EXCEPT !.lines = <<n>>]
    OBVIOUS
  <2>2. /\ q \in Clause /\ q.lines = <<n>> /\ q.article = 0 /\ Range(q.lines) = {n} /\ Ordered(q.lines)
        /\ DOMAIN q.lines = {1} /\ q.lines[1] = n /\ q.lines # <<>>
    <3>1. <<n>> \in Seq(1..MaxLines) /\ DOMAIN <<n>> = {1} /\ <<n>>[1] = n /\ <<n>> # <<>>
      BY <1>6
    <3>2. Range(<<n>>) = {n} /\ Ordered(<<n>>)
      BY <3>1 DEF Range, Ordered
    <3> QED
      BY <2>1, <3>1, <3>2, NoClauseIs DEF Clause
  <2>3. ps = Append(s.paragraphs, q)
    BY <1>2, <1>10, <2>1 DEF AddToParagraphs
  <2>4. /\ ps \in Seq(Clause) /\ DOMAIN ps = DOMAIN s.paragraphs \cup {Len(s.paragraphs) + 1}
        /\ ps[Len(s.paragraphs) + 1] = q /\ \A p \in DOMAIN s.paragraphs : ps[p] = s.paragraphs[p]
    BY <1>6, <2>2, <2>3, Appended
  <2>5. \A p \in DOMAIN s.paragraphs : Precedes(s.paragraphs[p].lines, q.lines)
    BY <1>12, <2>2 DEF Precedes
  <2>6. InOrder(ps)
    BY <1>6, <2>2, <2>3, <2>5, InOrderAppend DEF ParagraphsRight
  <2>7. \A i \in DOMAIN r.text :
            (\E p \in DOMAIN ps : i \in Range(ps[p].lines)) <=> r.text[i] \notin Blanks
    <3>1. \A i : (\E p \in DOMAIN ps : i \in Range(ps[p].lines))
                  <=> i = n \/ \E p \in DOMAIN s.paragraphs : i \in Range(s.paragraphs[p].lines)
      BY <2>2, <2>4
    <3> QED
      BY <1>6, <1>8, <1>10, <3>1 DEF ParagraphsRight
  <2>8. \A p \in DOMAIN ps : /\ ps[p].lines # <<>> /\ ps[p].article = 0
                             /\ Range(ps[p].lines) \subseteq DOMAIN r.text
    <3> SUFFICES ASSUME NEW p \in DOMAIN ps
                 PROVE  /\ ps[p].lines # <<>> /\ ps[p].article = 0
                        /\ Range(ps[p].lines) \subseteq DOMAIN r.text
      OBVIOUS
    <3>1. CASE p \in DOMAIN s.paragraphs
      BY <1>6, <2>4, <3>1 DEF ParagraphsRight
    <3>2. CASE p = Len(s.paragraphs) + 1
      BY <1>6, <2>2, <2>4, <3>2
    <3> QED
      BY <2>4, <3>1, <3>2
  <2>9. ParagraphsRight(r)
    BY <1>5, <2>6, <2>7, <2>8 DEF ParagraphsRight
  <2> QED
    BY <1>3, <1>7, <2>4, <2>9
<1>11. CASE kind \notin Blanks /\ ~ParagraphEnds(s.text)
  <2>1. PICK k : k = Len(s.paragraphs)
    OBVIOUS
  <2>2. PICK m \in DOMAIN s.text : s.text[m] \notin Blanks
    BY <1>11 DEF ParagraphEnds
  <2>3. k \in DOMAIN s.paragraphs /\ DOMAIN s.paragraphs = 1..k /\ k \in Nat
    <3>1. PICK p \in DOMAIN s.paragraphs : m \in Range(s.paragraphs[p].lines)
      BY <2>2 DEF ParagraphsRight
    <3> QED
      BY <1>6, <2>1, <3>1
  <2>4. PICK old : old = s.paragraphs[k].lines
    OBVIOUS
  <2>5. old \in Seq(1..MaxLines) /\ s.paragraphs[k] \in Clause
    <3>1. s.paragraphs[k] \in Clause
      BY <1>6, <2>1, <2>3, ElementOfSeq
    <3> QED
      BY <2>4, <3>1 DEF Clause
  <2>6. PICK q : q = [s.paragraphs[k] EXCEPT !.lines = Append(old, n)]
    OBVIOUS
  <2>7. ps = [s.paragraphs EXCEPT ![k] = q]
    BY <1>2, <1>11, <2>1, <2>4, <2>5, <2>6 DEF AddToParagraphs, Clause
  <2>8. /\ q \in Clause /\ q.lines = Append(old, n) /\ q.article = 0
    BY <1>6, <2>3, <2>5, <2>6, Appended DEF Clause, ParagraphsRight
  <2>9. Range(q.lines) = Range(old) \cup {n} /\ q.lines # <<>>
    <3>1. Len(old) \in Nat /\ Len(q.lines) = Len(old) + 1 /\ Range(q.lines) = Range(old) \cup {n}
      <4>1. n \in 1..MaxLines /\ old \in Seq(1..MaxLines)
        BY <1>6, <2>5
      <4>2. /\ Len(Append(old, n)) = Len(old) + 1 /\ Len(old) \in Nat
            /\ Range(Append(old, n)) = Range(old) \cup {n}
        <5>1. PICK S : S = 1..MaxLines
          OBVIOUS
        <5>2. n \in S /\ old \in Seq(S)
          BY <4>1, <5>1
        <5> QED
          BY <5>2, Appended
      <4> QED
        BY <2>8, <4>2
    <3> QED
      BY <3>1
  <2>10. /\ ps \in Seq(Clause) /\ DOMAIN ps = DOMAIN s.paragraphs
         /\ ps[k] = q /\ \A p \in DOMAIN s.paragraphs : p # k => ps[p] = s.paragraphs[p]
    BY <1>6, <2>3, <2>7, <2>8
  <2>11. Ordered(q.lines)
    <3>1. Ordered(old)
      BY <1>6, <2>3, <2>4, OrderIs DEF ParagraphsRight
    <3> QED
      <4>1. \A i \in Range(old) : i < n
        <5>1. k \in DOMAIN s.paragraphs /\ old = s.paragraphs[k].lines
          BY <2>3, <2>4
        <5>2. \A i \in Range(old) : i \in 1..n - 1
          BY <1>8, <5>1
        <5> QED
          BY <1>6, <5>2
      <4> QED
        BY <1>6, <2>5, <2>8, <3>1, <4>1, OrderedAppend
  <2>12. \A p \in DOMAIN ps : p < k => Precedes(ps[p].lines, q.lines)
    <3> SUFFICES ASSUME NEW p \in DOMAIN ps, p < k PROVE Precedes(ps[p].lines, q.lines)
      OBVIOUS
    <3>1. Precedes(s.paragraphs[p].lines, old) /\ ps[p] = s.paragraphs[p]
      BY <1>6, <2>3, <2>4, <2>10, OrderIs DEF ParagraphsRight
    <3>2. \A i \in DOMAIN ps[p].lines : ps[p].lines[i] < n
      BY <1>12, <2>10, <3>1
    <3>3. /\ DOMAIN q.lines = DOMAIN old \cup {Len(old) + 1} /\ q.lines[Len(old) + 1] = n
          /\ \A i \in DOMAIN old : q.lines[i] = old[i]
      BY <1>6, <2>5, <2>8, Appended
    <3> QED
      BY <3>1, <3>2, <3>3 DEF Precedes
  <2>13. InOrder(ps)
    <3>1. InOrder(s.paragraphs)
      BY DEF ParagraphsRight
    <3>2. \A p \in DOMAIN ps : Ordered(ps[p].lines)
      BY <1>6, <2>10, <2>11, <3>1, OrderIs
    <3>3. \A c, d \in DOMAIN ps : c < d => Precedes(ps[c].lines, ps[d].lines)
      <4> SUFFICES ASSUME NEW c \in DOMAIN ps, NEW d \in DOMAIN ps, c < d
                   PROVE  Precedes(ps[c].lines, ps[d].lines)
        OBVIOUS
      <4>1. c # k /\ (d = k => c < k)
        BY <2>3, <2>10
      <4> QED
        BY <1>6, <2>10, <2>12, <3>1, <4>1, OrderIs
    <3> QED
      BY <2>10, <3>2, <3>3, OrderIs
  <2>14. \A i \in DOMAIN r.text :
            (\E p \in DOMAIN ps : i \in Range(ps[p].lines)) <=> r.text[i] \notin Blanks
    <3>1. \A i : (\E p \in DOMAIN ps : i \in Range(ps[p].lines))
                  <=> i = n \/ \E p \in DOMAIN s.paragraphs : i \in Range(s.paragraphs[p].lines)
      BY <2>3, <2>4, <2>9, <2>10
    <3> QED
      BY <1>6, <1>8, <1>11, <3>1 DEF ParagraphsRight
  <2>15. \A p \in DOMAIN ps : /\ ps[p].lines # <<>> /\ ps[p].article = 0
                              /\ Range(ps[p].lines) \subseteq DOMAIN r.text
    BY <1>6, <2>3, <2>4, <2>8, <2>9, <2>10 DEF ParagraphsRight
  <2>16. ParagraphsRight(r)
    BY <1>5, <2>13, <2>14, <2>15 DEF ParagraphsRight
  <2> QED
    BY <1>3, <1>7, <2>10, <2>16
<1> QED
  BY <1>9, <1>10, <1>11


(* What every case of Scan starts from.                                     *)
LEMMA LineRead ==
    ASSUME NEW s, SplitInv(s), NEW kind \in Kinds, Len(s.text) < MaxLines,
           NEW r, r = LongerSplit(s, kind), NEW n, n = Len(s.text) + 1
    PROVE  /\ r \in Splitter /\ Held(r) /\ ParagraphsRight(r)
           /\ r.text = Append(s.text, kind) /\ r.chapter = s.chapter /\ r.section = s.section
           /\ r.open = s.open /\ r.clause = s.clause /\ r.clauses = s.clauses
           /\ n \in 1..MaxLines /\ Len(r.text) = n /\ r.text[n] = kind
           /\ DOMAIN r.text = 1..n /\ DOMAIN s.text = 1..n - 1
           /\ \A i \in DOMAIN s.text : r.text[i] = s.text[i]
           /\ \A i : FiledLine(r, i) => i < n /\ i \in DOMAIN s.text
           /\ \A i \in 1..n - 1 : FiledLine(r, i) <=> r.text[i] \in {"article", "body"}
           /\ r.text \in Seq(Kinds)
<1>1. s \in Splitter /\ Held(s) /\ ParagraphsRight(s) /\ Complete(s) /\ s.text \in Seq(Kinds)
  BY DEF SplitInv, Splitter
<1>2. r \in Splitter /\ Longer(s, r, kind) /\ ParagraphsRight(r)
  BY <1>1, ParagraphStep
<1>3. /\ r.text = Append(s.text, kind) /\ r.chapter = s.chapter /\ r.section = s.section
      /\ r.open = s.open /\ r.clause = s.clause /\ r.clauses = s.clauses
  BY <1>2 DEF Longer
<1>4. /\ n \in 1..MaxLines /\ Len(r.text) = n /\ r.text[n] = kind
      /\ DOMAIN r.text = 1..n /\ DOMAIN s.text = 1..n - 1
      /\ \A i \in DOMAIN s.text : r.text[i] = s.text[i]
      /\ r.text \in Seq(Kinds)
  BY <1>1, <1>3, Appended, LibraryAssumption
<1>5. Held(r) /\ \A i : FiledLine(r, i) <=> FiledLine(s, i)
  BY <1>1, <1>2, HeldLonger
<1>6. \A i : FiledLine(r, i) => i < n /\ i \in DOMAIN s.text
  BY <1>1, <1>4, <1>5, FiledWithin
<1>7. \A i \in 1..n - 1 : FiledLine(r, i) <=> r.text[i] \in {"article", "body"}
  BY <1>1, <1>4, <1>5 DEF Complete
<1> QED
  BY <1>1, <1>2, <1>3, <1>4, <1>5, <1>6, <1>7

(* The chapter or the section that goes on after a line that is no heading   *)
(* of that kind.                                                             *)
LEMMA ChapterPasses ==
    ASSUME NEW s, SplitInv(s), NEW kind \in Kinds, kind # "chapter"
    PROVE  LastBefore(Append(s.text, kind), Len(s.text) + 1, {"chapter"}, 1, s.chapter)
<1>1. s.text \in Seq(Kinds) /\ s.chapter \in Nat
      /\ LastBefore(s.text, Len(s.text), {"chapter"}, 1, s.chapter)
  BY LibraryAssumption DEF SplitInv, Current, Splitter, Heading
<1> QED
  BY <1>1, HeadingsPass

LEMMA SectionPasses ==
    ASSUME NEW s, SplitInv(s), NEW kind \in Kinds, kind # "section"
    PROVE  LastBefore(Append(s.text, kind), Len(s.text) + 1, {"section"}, s.chapter, s.section)
<1>1. s.text \in Seq(Kinds) /\ s.chapter \in Nat /\ s.section \in Nat
      /\ LastBefore(s.text, Len(s.text), {"section"}, s.chapter, s.section)
  BY LibraryAssumption DEF SplitInv, Current, Splitter, Heading
<1> QED
  BY <1>1, HeadingsPass

LEMMA ArticlePasses ==
    ASSUME NEW s, SplitInv(s), NEW kind \in Kinds, kind \notin Headings,
           s.open, s.clause.article > 0
    PROVE  LastBefore(Append(s.text, kind), Len(s.text) + 1, Headings, 1, s.clause.article)
<1>1. s.text \in Seq(Kinds) /\ s.clause.article \in Nat
      /\ LastBefore(s.text, Len(s.text), Headings, 1, s.clause.article)
  BY LibraryAssumption DEF SplitInv, Current, Splitter, Clause, Heading
<1> QED
  BY <1>1, HeadingsPass

(* ParagraphsRight speaks of the text and the paragraphs only.              *)
LEMMA SameParagraphs ==
    ASSUME NEW r, NEW x, x.text = r.text, x.paragraphs = r.paragraphs, ParagraphsRight(r)
    PROVE  ParagraphsRight(x)
BY DEF ParagraphsRight

LEMMA ScanBlank ==
    ASSUME NEW s, SplitInv(s), Len(s.text) < MaxLines, NEW kind \in Blanks, NEW r, r = LongerSplit(s, kind)
    PROVE  SplitInv(r)
<1>1. PICK n : n = Len(s.text) + 1
  OBVIOUS
<1>2. kind \in Kinds /\ kind \notin Headings /\ kind \notin {"article", "body"}
  BY DEF Kinds, Blanks, Headings
<1>3. /\ r \in Splitter /\ Held(r) /\ ParagraphsRight(r)
      /\ r.text = Append(s.text, kind) /\ r.chapter = s.chapter /\ r.section = s.section
      /\ r.open = s.open /\ r.clause = s.clause /\ Len(r.text) = n /\ r.text[n] = kind
      /\ DOMAIN r.text = 1..n /\ n \in 1..MaxLines
      /\ \A i : FiledLine(r, i) => i < n
      /\ \A i \in 1..n - 1 : FiledLine(r, i) <=> r.text[i] \in {"article", "body"}
  BY <1>1, <1>2, LineRead
<1>4. Current(r)
  <2>1. kind # "chapter" /\ kind # "section"
    BY <1>2 DEF Headings
  <2>2. /\ LastBefore(r.text, n, {"chapter"}, 1, r.chapter)
        /\ LastBefore(r.text, n, {"section"}, r.chapter, r.section)
    BY <1>1, <1>2, <1>3, <2>1, ChapterPasses, SectionPasses
  <2>3. ASSUME r.open, r.clause.article > 0
        PROVE  LastBefore(r.text, n, Headings, 1, r.clause.article)
    BY <1>1, <1>2, <1>3, <2>3, ArticlePasses
  <2> QED
    BY <1>3, <2>2, <2>3 DEF Current
<1>5. Complete(r)
  BY <1>2, <1>3 DEF Complete
<1> QED
  BY <1>3, <1>4, <1>5 DEF SplitInv

LEMMA ScanChapter ==
    ASSUME NEW s, SplitInv(s), Len(s.text) < MaxLines, NEW r, r = LongerSplit(s, "chapter"),
           NEW n, n = Len(s.text) + 1
    PROVE  SplitInv(NewChapter(r, n)) /\ NewChapter(r, n).text = r.text
<1>1. PICK f : f = FlushArticle(r)
  OBVIOUS
<1>2. PICK x : x = NewChapter(r, n)
  OBVIOUS
<1>3. "chapter" \in Kinds
  BY DEF Kinds
<1>4. /\ r \in Splitter /\ Held(r) /\ ParagraphsRight(r)
      /\ r.text = Append(s.text, "chapter") /\ Len(r.text) = n /\ r.text[n] = "chapter"
      /\ DOMAIN r.text = 1..n /\ n \in 1..MaxLines
      /\ \A i : FiledLine(r, i) => i < n
      /\ \A i \in 1..n - 1 : FiledLine(r, i) <=> r.text[i] \in {"article", "body"}
  BY <1>3, LineRead
<1>5. /\ f \in Splitter /\ Held(f) /\ ~f.open /\ f.text = r.text
      /\ f.paragraphs = r.paragraphs /\ \A i : FiledLine(f, i) <=> FiledLine(r, i)
  BY <1>1, <1>4, FlushHeld
<1>6. x = [f EXCEPT !.chapter = n, !.section = 0]
  BY <1>1, <1>2 DEF NewChapter
<1>7. /\ x.text = f.text /\ x.open = f.open /\ x.clause = f.clause /\ x.clauses = f.clauses
      /\ x.paragraphs = f.paragraphs /\ x.chapter = n /\ x.section = 0
  BY <1>5, <1>6 DEF Splitter
<1>8. x \in Splitter
  <2>1. n \in Heading /\ 0 \in Heading
    BY <1>4, LibraryAssumption DEF Heading
  <2> QED
    BY <1>5, <1>6, <2>1 DEF Splitter
<1>9. Held(x) /\ \A i : FiledLine(x, i) <=> FiledLine(r, i)
  BY <1>5, <1>7 DEF Held, FiledLine
<1>10. Complete(x)
  BY <1>4, <1>5, <1>7, <1>9 DEF Complete
<1>11. LastBefore(x.text, n, {"chapter"}, 1, n) /\ LastBefore(x.text, n, {"section"}, n, 0)
  BY <1>4, <1>5, <1>7 DEF LastBefore
<1>12. Current(x)
  BY <1>4, <1>5, <1>7, <1>11 DEF Current
<1>13. ParagraphsRight(x)
  BY <1>4, <1>5, <1>7, SameParagraphs
<1> QED
  BY <1>2, <1>5, <1>7, <1>8, <1>9, <1>10, <1>12, <1>13 DEF SplitInv

LEMMA ScanSection ==
    ASSUME NEW s, SplitInv(s), Len(s.text) < MaxLines, NEW r, r = LongerSplit(s, "section"),
           NEW n, n = Len(s.text) + 1,
           NEW x, x = [FlushArticle(r) EXCEPT !.section = n]
    PROVE  SplitInv(x) /\ x.text = r.text
<1>1. PICK f : f = FlushArticle(r)
  OBVIOUS
<1>3. "section" \in Kinds
  BY DEF Kinds
<1>4. /\ r \in Splitter /\ Held(r) /\ ParagraphsRight(r) /\ r.chapter = s.chapter
      /\ r.text = Append(s.text, "section") /\ Len(r.text) = n /\ r.text[n] = "section"
      /\ DOMAIN r.text = 1..n /\ n \in 1..MaxLines
      /\ \A i : FiledLine(r, i) => i < n
      /\ \A i \in 1..n - 1 : FiledLine(r, i) <=> r.text[i] \in {"article", "body"}
  BY <1>3, LineRead
<1>5. /\ f \in Splitter /\ Held(f) /\ ~f.open /\ f.text = r.text /\ f.chapter = s.chapter
      /\ f.paragraphs = r.paragraphs /\ \A i : FiledLine(f, i) <=> FiledLine(r, i)
  BY <1>1, <1>4, FlushHeld
<1>6. x = [f EXCEPT !.section = n]
  BY <1>1
<1>7. /\ x.text = f.text /\ x.open = f.open /\ x.clause = f.clause /\ x.clauses = f.clauses
      /\ x.paragraphs = f.paragraphs /\ x.chapter = s.chapter /\ x.section = n
  BY <1>5, <1>6 DEF Splitter
<1>8. x \in Splitter
  <2>1. n \in Heading /\ 0 \in Heading
    BY <1>4, LibraryAssumption DEF Heading
  <2> QED
    BY <1>5, <1>6, <2>1 DEF Splitter
<1>9. Held(x) /\ \A i : FiledLine(x, i) <=> FiledLine(r, i)
  BY <1>5, <1>7 DEF Held, FiledLine
<1>10. Complete(x)
  BY <1>4, <1>5, <1>7, <1>9, SMTT(30) DEF Complete
<1>11. LastBefore(x.text, n, {"chapter"}, 1, s.chapter)
  BY <1>3, <1>4, <1>5, <1>7, ChapterPasses, ZenonT(60)
<1>12. s.chapter \in 0..n
  <2>1. s.chapter \in Nat /\ LastBefore(s.text, Len(s.text), {"chapter"}, 1, s.chapter) /\ Len(s.text) \in Nat
    BY LibraryAssumption DEF SplitInv, Current, Splitter, Heading
  <2> QED
    BY <2>1 DEF LastBefore
<1>13. LastBefore(x.text, n, {"section"}, s.chapter, n)
  BY <1>4, <1>5, <1>7, <1>12 DEF LastBefore
<1>14. Current(x)
  BY <1>4, <1>5, <1>7, <1>11, <1>13 DEF Current
<1>15. ParagraphsRight(x)
  BY <1>4, <1>5, <1>7, SameParagraphs
<1> QED
  BY <1>5, <1>7, <1>8, <1>9, <1>10, <1>14, <1>15 DEF SplitInv


OpenWith(f, q) == [f EXCEPT !.open = TRUE, !.clause = q]

LEMMA Opened ==
    ASSUME NEW f \in Splitter, Held(f), ~f.open,
           NEW q \in Clause, Filed(f.text, q),
           \A c \in DOMAIN f.clauses : Precedes(f.clauses[c].lines, q.lines)
    PROVE  /\ OpenWith(f, q) \in Splitter /\ Held(OpenWith(f, q))
           /\ OpenWith(f, q).open /\ OpenWith(f, q).clause = q
           /\ OpenWith(f, q).text = f.text /\ OpenWith(f, q).paragraphs = f.paragraphs
           /\ OpenWith(f, q).chapter = f.chapter /\ OpenWith(f, q).section = f.section
           /\ \A i : FiledLine(OpenWith(f, q), i) <=> FiledLine(f, i) \/ i \in Range(q.lines)
<1>1. PICK x : x = OpenWith(f, q)
  OBVIOUS
<1>2. /\ x.open /\ x.clause = q /\ x.clauses = f.clauses
      /\ x.text = f.text /\ x.chapter = f.chapter /\ x.section = f.section
      /\ x.paragraphs = f.paragraphs
  BY <1>1 DEF Splitter, OpenWith
<1>3. x \in Splitter
  BY <1>1 DEF Splitter, OpenWith
<1>4. Held(x)
  BY <1>2 DEF Held
<1>5. Range(f.clause.lines) = {}
  BY DEF Held, Range
<1>6. \A i : FiledLine(x, i) <=> FiledLine(f, i) \/ i \in Range(q.lines)
  BY <1>2, <1>5 DEF FiledLine
<1> QED
  BY <1>1, <1>2, <1>3, <1>4, <1>6

(* The clause of an article heading at line n, with or without a text.      *)
LEMMA ScanArticle ==
    ASSUME NEW s, SplitInv(s), Len(s.text) < MaxLines,
           NEW kind \in {"article", "bare"}, NEW r, r = LongerSplit(s, kind),
           NEW n, n = Len(s.text) + 1,
           NEW lines, lines = IF kind = "article" THEN <<n>> ELSE <<>>
    PROVE  LET x == OpenClause(FlushArticle(r), r.chapter, r.section, n, lines) IN
           SplitInv(x) /\ x.text = r.text
<1>16. PICK x : x = OpenClause(FlushArticle(r), r.chapter, r.section, n, lines)
  OBVIOUS
<1>1. PICK f : f = FlushArticle(r)
  OBVIOUS
<1>2. PICK q : q = [chapter |-> r.chapter, section |-> r.section, article |-> n, lines |-> lines]
  OBVIOUS
<1>3. kind \in Kinds /\ kind \in Headings /\ kind # "chapter" /\ kind # "section" /\ kind \notin Blanks
  BY DEF Kinds, Headings, Blanks
<1>4. /\ r \in Splitter /\ Held(r)
      /\ r.chapter = s.chapter /\ r.section = s.section
      /\ r.text = Append(s.text, kind) /\ Len(r.text) = n /\ r.text[n] = kind
      /\ DOMAIN r.text = 1..n /\ DOMAIN s.text = 1..n - 1 /\ n \in 1..MaxLines
  BY <1>3, LineRead
<1>40. ParagraphsRight(r)
  BY <1>3, LineRead
<1>41. /\ \A i : FiledLine(r, i) => i < n
       /\ \A i \in 1..n - 1 : FiledLine(r, i) <=> r.text[i] \in {"article", "body"}
  BY <1>3, LineRead
<1>5. /\ f \in Splitter /\ Held(f) /\ ~f.open /\ f.text = r.text
      /\ f.chapter = s.chapter /\ f.section = s.section
      /\ f.paragraphs = r.paragraphs /\ \A i : FiledLine(f, i) <=> FiledLine(r, i)
  BY <1>1, <1>4, FlushHeld
<1>6. x = OpenWith(f, q)
  BY <1>1, <1>2, <1>16 DEF OpenClause, OpenWith
<1>7. /\ lines \in Seq(1..MaxLines) /\ Ordered(lines)
      /\ Range(lines) = IF kind = "article" THEN {n} ELSE {}
  <2>1. CASE kind = "article"
    <3>1. lines = <<n>> /\ DOMAIN lines = {1} /\ lines[1] = n
      BY <2>1
    <3>2. lines \in Seq(1..MaxLines)
      <4>1. n \in 1..MaxLines
        BY <1>4
      <4>2. <<n>> \in Seq(1..MaxLines)
        BY <4>1
      <4> QED
        BY <3>1, <4>2
    <3> QED
      BY <2>1, <3>1, <3>2 DEF Ordered, Range
  <2>2. CASE kind # "article"
    <3>1. lines = <<>> /\ DOMAIN lines = {}
      BY <2>2
    <3> QED
      BY <2>2, <3>1 DEF Ordered, Range
  <2> QED
    BY <2>1, <2>2
<1>8. q \in Clause /\ q.lines = lines /\ q.article = n /\ q.chapter = s.chapter /\ q.section = s.section
  <2>1. n \in Heading /\ r.chapter \in Heading /\ r.section \in Heading
    BY <1>4, LibraryAssumption DEF Heading, Splitter
  <2> QED
    BY <1>2, <1>4, <1>7, <2>1 DEF Clause
<1>9. /\ LastBefore(f.text, n, Headings, 1, n)
      /\ LastBefore(f.text, n, {"chapter"}, 1, s.chapter)
      /\ LastBefore(f.text, n, {"section"}, s.chapter, s.section)
  <2>1. LastBefore(f.text, n, Headings, 1, n)
    BY <1>3, <1>4, <1>5 DEF LastBefore
  <2>2. LastBefore(f.text, n, {"chapter"}, 1, s.chapter)
    BY <1>3, <1>4, <1>5, ChapterPasses
  <2>3. LastBefore(f.text, n, {"section"}, s.chapter, s.section)
    BY <1>3, <1>4, <1>5, SectionPasses
  <2> QED
    BY <2>1, <2>2, <2>3
<1>10. Filed(f.text, q)
  <2>1. ClauseRight(f.text, q)
    BY <1>4, <1>5, <1>7, <1>8, <1>9 DEF ClauseRight
  <2>2. q.article \in 0..Len(f.text) /\ q.chapter \in Nat /\ q.section \in Nat
    BY <1>4, <1>5, <1>8, LibraryAssumption DEF Clause, Heading
  <2> QED
    BY <1>4, <1>5, <1>7, <1>8, <2>1, <2>2 DEF Filed
<1>11. \A c \in DOMAIN f.clauses : Precedes(f.clauses[c].lines, q.lines)
  <2> SUFFICES ASSUME NEW c \in DOMAIN f.clauses, NEW i \in DOMAIN f.clauses[c].lines,
                      NEW j \in DOMAIN q.lines
               PROVE  f.clauses[c].lines[i] < q.lines[j]
    BY DEF Precedes
  <2>1. f.clauses[c].lines[i] \in Range(f.clauses[c].lines)
    BY DEF Range
  <2>2. f.clauses[c].lines[i] < n
    BY <1>5, <1>41, <2>1 DEF FiledLine
  <2>3. q.lines[j] \in Range(q.lines)
    BY DEF Range
  <2> QED
    BY <1>7, <1>8, <2>2, <2>3
<1>12. /\ x \in Splitter /\ Held(x) /\ x.open /\ x.clause = q
       /\ x.text = r.text /\ x.chapter = s.chapter /\ x.section = s.section
       /\ x.paragraphs = r.paragraphs
  <2>1. /\ x \in Splitter /\ Held(x) /\ x.open /\ x.clause = q
        /\ x.text = f.text /\ x.chapter = f.chapter /\ x.section = f.section
        /\ x.paragraphs = f.paragraphs
    BY <1>5, <1>6, <1>8, <1>10, <1>11, Opened
  <2> QED
    BY <1>4, <1>5, <2>1
<1>42. \A i : FiledLine(x, i) <=> FiledLine(r, i) \/ i \in Range(lines)
  <2>1. \A i : FiledLine(x, i) <=> FiledLine(f, i) \/ i \in Range(q.lines)
    BY <1>5, <1>6, <1>8, <1>10, <1>11, Opened
  <2> QED
    BY <1>5, <1>8, <2>1
<1>13. Complete(x)
  <2> SUFFICES ASSUME NEW i \in DOMAIN x.text
               PROVE  FiledLine(x, i) <=> x.text[i] \in {"article", "body"}
    BY DEF Complete
  <2>1. x.text[n] = r.text[n] /\ (i = n \/ i \in 1..n - 1)
    BY <1>4, <1>12
  <2>2. CASE i = n
    BY <1>3, <1>4, <1>7, <1>41, <1>42, <2>1, <2>2
  <2>3. CASE i \in 1..n - 1
    BY <1>4, <1>7, <1>12, <1>41, <1>42, <2>3
  <2> QED
    BY <2>1, <2>2, <2>3
<1>14. Current(x)
  BY <1>4, <1>5, <1>8, <1>9, <1>12 DEF Current
<1>15. ParagraphsRight(x)
  BY <1>12, <1>40, SameParagraphs
<1> QED
  BY <1>12, <1>13, <1>14, <1>15, <1>16 DEF SplitInv

LEMMA ScanPreface ==
    ASSUME NEW s, SplitInv(s), Len(s.text) < MaxLines, ~s.open,
           NEW r, r = LongerSplit(s, "body"), NEW n, n = Len(s.text) + 1
    PROVE  LET x == OpenClause(r, 0, 0, 0, <<n>>) IN SplitInv(x) /\ x.text = r.text
<1>1. PICK x : x = OpenClause(r, 0, 0, 0, <<n>>)
  OBVIOUS
<1>2. PICK q : q = [chapter |-> 0, section |-> 0, article |-> 0, lines |-> <<n>>]
  OBVIOUS
<1>3. "body" \in Kinds
  BY DEF Kinds
<1>4. /\ r \in Splitter /\ Held(r) /\ r.open = s.open
      /\ r.chapter = s.chapter /\ r.section = s.section
      /\ r.text = Append(s.text, "body") /\ Len(r.text) = n /\ r.text[n] = "body"
      /\ DOMAIN r.text = 1..n /\ DOMAIN s.text = 1..n - 1 /\ n \in 1..MaxLines
  BY <1>3, LineRead
<1>40. ParagraphsRight(r)
  BY <1>3, LineRead
<1>41. /\ \A i : FiledLine(r, i) => i < n
       /\ \A i \in 1..n - 1 : FiledLine(r, i) <=> r.text[i] \in {"article", "body"}
  BY <1>3, LineRead
<1>6. x = OpenWith(r, q)
  BY <1>1, <1>2 DEF OpenClause, OpenWith
<1>7. /\ <<n>> \in Seq(1..MaxLines) /\ Ordered(<<n>>) /\ Range(<<n>>) = {n}
  <2>1. DOMAIN <<n>> = {1} /\ <<n>>[1] = n /\ <<n>> \in Seq(1..MaxLines)
    BY <1>4
  <2> QED
    BY <2>1 DEF Ordered, Range
<1>8. q \in Clause /\ q.lines = <<n>> /\ q.article = 0 /\ q.chapter = 0 /\ q.section = 0
  <2>1. 0 \in Heading
    BY LibraryAssumption DEF Heading
  <2> QED
    BY <1>2, <1>7, <2>1 DEF Clause
<1>10. Filed(r.text, q)
  BY <1>4, <1>7, <1>8 DEF Filed, ClauseRight
<1>11. \A c \in DOMAIN r.clauses : Precedes(r.clauses[c].lines, q.lines)
  <2> SUFFICES ASSUME NEW c \in DOMAIN r.clauses, NEW i \in DOMAIN r.clauses[c].lines,
                      NEW j \in DOMAIN q.lines
               PROVE  r.clauses[c].lines[i] < q.lines[j]
    BY DEF Precedes
  <2>1. r.clauses[c].lines[i] \in Range(r.clauses[c].lines)
    BY DEF Range
  <2>2. r.clauses[c].lines[i] < n
    BY <1>41, <2>1 DEF FiledLine
  <2>3. q.lines[j] \in Range(q.lines)
    BY DEF Range
  <2> QED
    BY <1>7, <1>8, <2>2, <2>3
<1>12. /\ x \in Splitter /\ Held(x) /\ x.open /\ x.clause = q
       /\ x.text = r.text /\ x.chapter = s.chapter /\ x.section = s.section
       /\ x.paragraphs = r.paragraphs
  <2>1. r \in Splitter /\ Held(r) /\ ~r.open
    BY <1>4
  <2>2. /\ x \in Splitter /\ Held(x) /\ x.open /\ x.clause = q
        /\ x.text = r.text /\ x.chapter = r.chapter /\ x.section = r.section
        /\ x.paragraphs = r.paragraphs
    BY <1>6, <1>8, <1>10, <1>11, <2>1, Opened
  <2> QED
    BY <1>4, <2>2
<1>42. \A i : FiledLine(x, i) <=> FiledLine(r, i) \/ i \in Range(<<n>>)
  <2>1. \A i : FiledLine(x, i) <=> FiledLine(r, i) \/ i \in Range(q.lines)
    BY <1>4, <1>6, <1>8, <1>10, <1>11, Opened
  <2> QED
    BY <1>8, <2>1
<1>13. Complete(x)
  BY <1>4, <1>7, <1>12, <1>41, <1>42 DEF Complete
<1>14. Current(x)
  <2>1. /\ LastBefore(x.text, n, {"chapter"}, 1, s.chapter)
        /\ LastBefore(x.text, n, {"section"}, s.chapter, s.section)
    BY <1>3, <1>4, <1>12, ChapterPasses, SectionPasses
  <2> QED
    BY <1>4, <1>8, <1>12, <2>1 DEF Current
<1>15. ParagraphsRight(x)
  BY <1>12, <1>40, SameParagraphs
<1> QED
  BY <1>1, <1>12, <1>13, <1>14, <1>15 DEF SplitInv

LEMMA ClauseRead ==
    ASSUME NEW s, SplitInv(s), NEW kind \in Kinds, Len(s.text) < MaxLines
    PROVE  LET r == LongerSplit(s, kind) IN r.open = s.open /\ r.clause = s.clause
BY LineRead

LEMMA ScanBody ==
    ASSUME NEW s, SplitInv(s), Len(s.text) < MaxLines, s.open,
           NEW r, r = LongerSplit(s, "body"), NEW n, n = Len(s.text) + 1
    PROVE  LET x == [r EXCEPT !.clause.lines = Append(@, n)] IN SplitInv(x) /\ x.text = r.text
<1>19. PICK x : x = [r EXCEPT !.clause.lines = Append(@, n)]
  OBVIOUS
<1>1. PICK old : old = r.clause.lines
  OBVIOUS
<1>2. PICK q : q = [r.clause EXCEPT !.lines = Append(old, n)]
  OBVIOUS
<1>3. "body" \in Kinds /\ "body" \notin Headings
  BY DEF Kinds, Headings
<1>4. /\ r \in Splitter /\ Held(r) /\ r.open = s.open
      /\ r.chapter = s.chapter /\ r.section = s.section /\ r.clause = s.clause
      /\ r.text = Append(s.text, "body") /\ Len(r.text) = n /\ r.text[n] = "body"
      /\ DOMAIN r.text = 1..n /\ DOMAIN s.text = 1..n - 1 /\ n \in 1..MaxLines
  <2>1. r \in Splitter /\ Held(r) /\ r.chapter = s.chapter /\ r.section = s.section
    BY <1>3, LineRead
  <2>3. r.open = s.open /\ r.clause = s.clause
    BY <1>3, ClauseRead
  <2>2. /\ r.text = Append(s.text, "body") /\ Len(r.text) = n /\ r.text[n] = "body"
        /\ DOMAIN r.text = 1..n /\ DOMAIN s.text = 1..n - 1 /\ n \in 1..MaxLines
    BY <1>3, LineRead
  <2> QED
    BY <2>1, <2>2, <2>3
<1>40. ParagraphsRight(r)
  BY <1>3, LineRead
<1>41. /\ \A i : FiledLine(r, i) => i < n
       /\ \A i \in 1..n - 1 : FiledLine(r, i) <=> r.text[i] \in {"article", "body"}
  BY <1>3, LineRead
<1>5. r.clause \in Clause /\ old \in Seq(1..MaxLines)
  BY <1>1, <1>4 DEF Splitter, Clause
<1>6. x = [r EXCEPT !.clause = q]
  BY <1>1, <1>2, <1>4, <1>5, <1>19 DEF Splitter, Clause
<1>7. /\ Append(old, n) \in Seq(1..MaxLines) /\ Range(Append(old, n)) = Range(old) \cup {n}
      /\ DOMAIN Append(old, n) = DOMAIN old \cup {Len(old) + 1} /\ Append(old, n)[Len(old) + 1] = n
      /\ \A i \in DOMAIN old : Append(old, n)[i] = old[i]
  <2>1. PICK S : S = 1..MaxLines
    OBVIOUS
  <2>2. old \in Seq(S) /\ n \in S
    BY <1>4, <1>5, <2>1
  <2>3. /\ Append(old, n) \in Seq(S) /\ Range(Append(old, n)) = Range(old) \cup {n}
        /\ DOMAIN Append(old, n) = DOMAIN old \cup {Len(old) + 1} /\ Append(old, n)[Len(old) + 1] = n
        /\ \A i \in DOMAIN old : Append(old, n)[i] = old[i]
    BY <2>2, Appended
  <2> QED
    BY <2>1, <2>3
<1>8. /\ q \in Clause /\ q.lines = Append(old, n) /\ q.article = s.clause.article
      /\ q.chapter = s.clause.chapter /\ q.section = s.clause.section
  BY <1>2, <1>4, <1>5, <1>7 DEF Clause
<1>9. \A i \in Range(old) : i < n
  BY <1>1, <1>41 DEF FiledLine
<1>10. Filed(r.text, q)
  <2>1. Filed(r.text, s.clause)
    BY <1>4 DEF Held
  <2>2. Ordered(Append(old, n))
    BY <1>1, <1>4, <1>5, <1>9, <2>1, OrderedAppend DEF Filed
  <2>3. s.clause.article > 0 => LastBefore(r.text, n, Headings, 1, s.clause.article)
    BY <1>3, <1>4, ArticlePasses
  <2>4. ClauseRight(r.text, q)
    BY <1>1, <1>4, <1>7, <1>8, <2>1, <2>3 DEF Filed, ClauseRight
  <2> QED
    BY <1>1, <1>4, <1>7, <1>8, <2>1, <2>2, <2>4 DEF Filed
<1>11. \A c \in DOMAIN r.clauses : Precedes(r.clauses[c].lines, q.lines)
  <2> SUFFICES ASSUME NEW c \in DOMAIN r.clauses, NEW i \in DOMAIN r.clauses[c].lines,
                      NEW j \in DOMAIN q.lines
               PROVE  r.clauses[c].lines[i] < q.lines[j]
    BY DEF Precedes
  <2>1. r.clauses[c].lines[i] \in Range(r.clauses[c].lines)
    BY DEF Range
  <2>2. r.clauses[c].lines[i] < n
    BY <1>41, <2>1 DEF FiledLine
  <2>3. Precedes(r.clauses[c].lines, old)
    BY <1>1, <1>4 DEF Held
  <2> QED
    BY <1>7, <1>8, <2>2, <2>3 DEF Precedes
<1>12. /\ x.open /\ x.clause = q /\ x.clauses = r.clauses /\ x.text = r.text
       /\ x.chapter = s.chapter /\ x.section = s.section /\ x.paragraphs = r.paragraphs
  BY <1>4, <1>6 DEF Splitter
<1>13. x \in Splitter
  BY <1>4, <1>6, <1>8 DEF Splitter
<1>14. Held(x)
  BY <1>4, <1>10, <1>11, <1>12 DEF Held
<1>15. \A i : FiledLine(x, i) <=> FiledLine(r, i) \/ i = n
  <2>1. Range(x.clause.lines) = Range(r.clause.lines) \cup {n} /\ x.clauses = r.clauses
    BY <1>1, <1>7, <1>8, <1>12
  <2> QED
    BY <2>1 DEF FiledLine
<1>16. Complete(x)
  <2> SUFFICES ASSUME NEW i \in DOMAIN x.text
               PROVE  FiledLine(x, i) <=> x.text[i] \in {"article", "body"}
    BY DEF Complete
  <2>1. x.text[n] = r.text[n] /\ (i = n \/ i \in 1..n - 1)
    BY <1>4, <1>12
  <2>2. CASE i = n
    BY <1>4, <1>15, <2>1, <2>2
  <2>3. CASE i \in 1..n - 1
    BY <1>4, <1>12, <1>15, <1>41, <2>3
  <2> QED
    BY <2>1, <2>2, <2>3
<1>17. Current(x)
  <2>1. /\ LastBefore(x.text, n, {"chapter"}, 1, s.chapter)
        /\ LastBefore(x.text, n, {"section"}, s.chapter, s.section)
    BY <1>3, <1>4, <1>12, ChapterPasses, SectionPasses
  <2>2. q.article > 0 => LastBefore(x.text, n, Headings, 1, q.article)
    BY <1>3, <1>4, <1>8, <1>12, ArticlePasses
  <2> QED
    BY <1>4, <1>12, <2>1, <2>2 DEF Current
<1>18. ParagraphsRight(x)
  BY <1>12, <1>40, SameParagraphs
<1> QED
  BY <1>12, <1>13, <1>14, <1>16, <1>17, <1>18, <1>19 DEF SplitInv

LEMMA ScanKeeps ==
    ASSUME NEW s, SplitInv(s), Len(s.text) < MaxLines, NEW kind \in Kinds
    PROVE  SplitInv(Scan(s, kind)) /\ Len(Scan(s, kind).text) = Len(s.text) + 1
<1>1. PICK n : n = Len(s.text) + 1
  OBVIOUS
<1>2. PICK r : r = LongerSplit(s, kind)
  OBVIOUS
<1>3. Len(r.text) = n /\ r.open = s.open
  BY <1>1, <1>2, LineRead
<1>4. CASE kind \in Blanks
  <2>1. Scan(s, kind) = r
    BY <1>2, <1>4 DEF Scan, LongerSplit, Blanks
  <2> QED
    BY <1>1, <1>2, <1>3, <1>4, <2>1, ScanBlank
<1>5. CASE kind = "chapter"
  <2>1. Scan(s, kind) = NewChapter(r, n)
    BY <1>1, <1>2, <1>5 DEF Scan, LongerSplit
  <2> QED
    BY <1>1, <1>2, <1>3, <1>5, <2>1, ScanChapter
<1>6. CASE kind = "section"
  <2>1. Scan(s, kind) = [FlushArticle(r) EXCEPT !.section = n]
    BY <1>1, <1>2, <1>6 DEF Scan, LongerSplit
  <2> QED
    BY <1>1, <1>2, <1>3, <1>6, <2>1, ScanSection
<1>7. CASE kind = "article"
  <2>1. Scan(s, kind) = OpenClause(FlushArticle(r), r.chapter, r.section, n, <<n>>)
    BY <1>1, <1>2, <1>7 DEF Scan, LongerSplit
  <2> QED
    BY <1>1, <1>2, <1>3, <1>7, <2>1, ScanArticle
<1>8. CASE kind = "bare"
  <2>1. Scan(s, kind) = OpenClause(FlushArticle(r), r.chapter, r.section, n, <<>>)
    BY <1>1, <1>2, <1>8 DEF Scan, LongerSplit
  <2> QED
    BY <1>1, <1>2, <1>3, <1>8, <2>1, ScanArticle
<1>9. CASE kind = "body"
  <2>1. Scan(s, kind) = IF s.open THEN [r EXCEPT !.clause.lines = Append(@, n)]
                        ELSE OpenClause(r, 0, 0, 0, <<n>>)
    BY <1>1, <1>2, <1>9 DEF Scan, LongerSplit
  <2>2. CASE s.open
    <3>1. Scan(s, kind) = [r EXCEPT !.clause.lines = Append(@, n)]
      BY <2>1, <2>2
    <3>2. PICK x : x = [r EXCEPT !.clause.lines = Append(@, n)]
      OBVIOUS
    <3>3. SplitInv(x) /\ x.text = r.text
      BY <1>1, <1>2, <1>9, <2>2, <3>2, ScanBody
    <3> QED
      BY <1>1, <1>3, <3>1, <3>2, <3>3
  <2>3. CASE ~s.open
    BY <1>1, <1>2, <1>3, <1>9, <2>1, <2>3, ScanPreface
  <2> QED
    BY <2>2, <2>3
<1> QED
  BY <1>4, <1>5, <1>6, <1>7, <1>8, <1>9 DEF Kinds


LawRight(law) == law.clauses # <<>> /\ SplitRight(law)

(* What is stored of a text with a line in it is the text.                  *)
LEMMA SplitIsRight ==
    ASSUME NEW s, SplitInv(s), NEW i \in DOMAIN s.text, s.text[i] \notin Blanks,
           NEW law, law.text = s.text, law.clauses = Clauses(s)
    PROVE  Clauses(s) \in Seq(Clause) /\ LawRight(law)
<1>1. PICK f : f = FlushArticle(s)
  OBVIOUS
<1>2. s \in Splitter /\ Held(s) /\ Complete(s) /\ ParagraphsRight(s)
  BY DEF SplitInv
<1>3. f \in Splitter /\ Held(f) /\ f.text = s.text /\ f.clause = NoClause
  BY <1>1, <1>2, FlushHeld
<1>4. \A j \in DOMAIN s.text :
        (\E c \in DOMAIN f.clauses : j \in Range(f.clauses[c].lines)) <=> s.text[j] \in {"article", "body"}
  <2>1. \A j : FiledLine(f, j) <=> FiledLine(s, j)
    BY <1>1, <1>2, FlushHeld
  <2>2. Range(f.clause.lines) = {}
    BY <1>3, NoClauseIs DEF Range
  <2> QED
    BY <1>2, <2>1, <2>2 DEF Complete, FiledLine
<1>5. CASE f.clauses # <<>>
  <2>1. law.clauses = f.clauses
    BY <1>1, <1>5 DEF Clauses
  <2>2. f.clauses \in Seq(Clause) /\ InOrder(f.clauses)
    BY <1>3 DEF Splitter, Held
  <2>3. \A c \in DOMAIN f.clauses :
            /\ f.clauses[c].lines # <<>> /\ ClauseRight(s.text, f.clauses[c])
            /\ Range(f.clauses[c].lines) \subseteq DOMAIN s.text
    BY <1>3 DEF Held, Filed
  <2>4. PICK content : content = {j \in DOMAIN s.text : s.text[j] \in {"article", "body"}}
    OBVIOUS
  <2>5. UNION {Range(f.clauses[c].lines) : c \in DOMAIN f.clauses} = content
    BY <1>4, <2>3, <2>4
  <2>6. content # {}
    <3>1. 1 \in DOMAIN f.clauses
      BY <1>5, <2>2
    <3>2. PICK lines : lines = f.clauses[1].lines
      OBVIOUS
    <3>3. lines \in Seq(1..MaxLines) /\ lines # <<>>
      <4>1. f.clauses[1] \in Clause
        BY <2>2, <3>1
      <4> QED
        BY <2>3, <3>1, <3>2, <4>1 DEF Clause
    <3>4. 1 \in DOMAIN lines
      BY <3>3
    <3>5. lines[1] \in Range(lines)
      BY <3>4 DEF Range
    <3> QED
      BY <2>5, <3>1, <3>2, <3>5
  <2>7. ContentLines(s.text) = content
    BY <2>4, <2>6 DEF ContentLines
  <2>8. SplitRight(law)
    BY <2>1, <2>2, <2>3, <2>5, <2>7 DEF SplitRight
  <2> QED
    BY <1>5, <2>1, <2>2, <2>8 DEF LawRight
<1>6. CASE f.clauses = <<>>
  <2>1. law.clauses = s.paragraphs
    BY <1>1, <1>6 DEF Clauses
  <2>2. s.paragraphs \in Seq(Clause) /\ InOrder(s.paragraphs)
    BY <1>2 DEF Splitter, ParagraphsRight
  <2>3. \A p \in DOMAIN s.paragraphs :
            /\ s.paragraphs[p].article = 0
            /\ Range(s.paragraphs[p].lines) \subseteq DOMAIN s.text
    BY <1>2 DEF ParagraphsRight
  <2>4. PICK content : content = {j \in DOMAIN s.text : s.text[j] \in {"article", "body"}}
    OBVIOUS
  <2>5. content = {}
    BY <1>4, <1>6, <2>4
  <2>6. PICK nonblank : nonblank = {j \in DOMAIN s.text : s.text[j] \notin Blanks}
    OBVIOUS
  <2>7. ContentLines(s.text) = nonblank
    BY <2>4, <2>5, <2>6 DEF ContentLines
  <2>8. UNION {Range(s.paragraphs[p].lines) : p \in DOMAIN s.paragraphs} = nonblank
    BY <1>2, <2>3, <2>6 DEF ParagraphsRight
  <2>9. s.paragraphs # <<>>
    BY <2>2, <2>6, <2>8
  <2>10. SplitRight(law)
    BY <2>1, <2>2, <2>3, <2>7, <2>8 DEF SplitRight, ClauseRight
  <2> QED
    BY <2>1, <2>2, <2>9, <2>10 DEF LawRight
<1> QED
  BY <1>5, <1>6


(* --- import --------------------------------------------------------------- *)

LibraryMove ==
    \/ \E b \in BOOLEAN : StartImport(b) \/ EntryFails(b) \/ ImportLaw(b) \/ AnswerImport(b)
    \/ \E kind \in Kinds : ReadLine(kind)
    \/ NextEntry \/ CommitImport \/ RestartLibrary
    \/ \E l \in DOMAIN library : CheckTimeValidity(l) \/ \E status \in LawStatus : UpdateLawStatus(l, status)
    \/ UNCHANGED lawLibrary

Import == [pc : {"idle", "reading", "entry", "commit", "audit"}, batch : BOOLEAN, split : Splitter,
           pending : Seq(LegalDocument), succeeded : Nat, failed : Nat, poisoned : BOOLEAN]

Splitting == SplitInv(import.split) /\ Len(import.split.text) <= linesRead

(* Every law, stored or about to be, is split; one that takes effect later is *)
(* a draft until somebody sets its status.                                    *)
LawsRight ==
    /\ \A l \in DOMAIN library :
        LawRight(library[l]) /\ (library[l].future => library[l].status = "draft" \/ l \in byHand)
    /\ \A p \in DOMAIN import.pending :
        LawRight(import.pending[p]) /\ (import.pending[p].future => import.pending[p].status = "draft")

(* What an import counts is what it is about to store, or has stored.       *)
Counted ==
    /\ import.pc = "idle" => import = NoImport
    /\ import.pc \in {"reading", "entry", "commit"} => Len(import.pending) = import.succeeded
    /\ import.pc = "audit" => import.pending = <<>> /\ told + import.succeeded <= Len(library)
    /\ told <= Len(library) /\ Len(library) <= MaxBatch
    /\ import.pc \in {"reading", "entry", "commit"} => ImportedLaws <= MaxBatch
    /\ import.pc = "reading" => ImportedLaws < MaxBatch

LibraryInv == LibraryOK /\ import \in Import /\ Splitting /\ LawsRight /\ Counted

LEMMA NoImportIs ==
    /\ NoImport \in Import /\ NoImport.pc = "idle" /\ NoImport.split = NewSplitter
    /\ NoImport.pending = <<>> /\ NoImport.succeeded = 0 /\ NoImport.failed = 0
    /\ NoImport.poisoned = FALSE
<1>1. NewSplitter \in Splitter
  BY EmptySplit DEF SplitInv
<1> QED
  BY <1>1 DEF NoImport, Import

LEMMA IdleSplits ==
    ASSUME linesRead' \in Nat, import'.split = NewSplitter
    PROVE  Splitting'
<1>1. Len(NewSplitter.text) = 0
  BY EmptySplit
<1> QED
  BY <1>1, EmptySplit DEF Splitting

LEMMA LibraryInit == InitLibrary => LibraryInv
<1> SUFFICES ASSUME InitLibrary PROVE LibraryInv
  OBVIOUS
<1>1. library = <<>> /\ import = NoImport /\ linesRead = 0 /\ told = 0 /\ byHand = {}
  BY DEF InitLibrary
<1>2. LibraryOK /\ import \in Import
  BY <1>1, NoImportIs, LibraryAssumption DEF LibraryOK, Import
<1>3. Splitting
  <2>1. Len(NewSplitter.text) = 0
    BY EmptySplit
  <2> QED
    BY <1>1, <2>1, EmptySplit, NoImportIs DEF Splitting
<1>4. LawsRight /\ Counted
  BY <1>1, NoImportIs, LibraryAssumption DEF LawsRight, Counted
<1> QED
  BY <1>2, <1>3, <1>4 DEF LibraryInv

(* An import that ends without having stored anything.                      *)
LEMMA DropKeeps ==
    ASSUME LibraryInv, import' = NoImport, UNCHANGED <<library, linesRead, told, byHand>>
    PROVE  LibraryInv'
<1>1. LibraryOK' /\ import' \in Import
  BY NoImportIs DEF LibraryInv, LibraryOK, Import
<1>2. Splitting'
  BY NoImportIs, IdleSplits DEF LibraryInv, LibraryOK
<1>3. LawsRight' /\ Counted'
  BY NoImportIs DEF LibraryInv, LawsRight, Counted
<1> QED
  BY <1>1, <1>2, <1>3 DEF LibraryInv

LEMMA StartKeeps ==
    ASSUME LibraryInv, NEW b \in BOOLEAN, StartImport(b)
    PROVE  LibraryInv'
<1>1. PICK new : new = [NoImport EXCEPT !.pc = "reading", !.batch = b]
  OBVIOUS
<1>2. /\ new \in Import /\ new.pc = "reading" /\ new.split = NewSplitter /\ new.pending = <<>>
      /\ new.succeeded = 0 /\ new.failed = 0
  BY <1>1, NoImportIs DEF Import
<1>3. /\ import.pc = "idle" /\ ImportedLaws < MaxBatch /\ import' = new
      /\ UNCHANGED <<library, linesRead, told, byHand>>
  BY <1>1 DEF StartImport
<1>4. LibraryOK' /\ import' \in Import
  BY <1>2, <1>3 DEF LibraryInv, LibraryOK, Import
<1>5. Splitting'
  BY <1>2, <1>3, IdleSplits DEF LibraryInv, LibraryOK
<1>6. LawsRight'
  BY <1>2, <1>3 DEF LibraryInv, LawsRight
<1>7. Len(library) \in Nat /\ import = NoImport
  BY <1>3 DEF LibraryInv, LibraryOK, Counted
<1>8. Counted'
  BY <1>2, <1>3, <1>7, NoImportIs DEF LibraryInv, Counted, ImportedLaws
<1> QED
  BY <1>4, <1>5, <1>6, <1>8 DEF LibraryInv

LEMMA ReadKeeps ==
    ASSUME LibraryInv, NEW kind \in Kinds, ReadLine(kind)
    PROVE  LibraryInv'
<1>1. PICK s : s = Scan(import.split, kind)
  OBVIOUS
<1>2. /\ import.pc = "reading" /\ linesRead < MaxLines /\ import' = [import EXCEPT !.split = s]
      /\ linesRead' = linesRead + 1 /\ UNCHANGED <<library, told, byHand>>
  BY <1>1 DEF ReadLine, LibraryInv, Import
<1>3. /\ linesRead \in 0..MaxLines /\ Len(import.split.text) \in Nat
      /\ SplitInv(import.split) /\ Len(import.split.text) <= linesRead
  BY DEF LibraryInv, LibraryOK, Splitting, Splitter
<1>4. SplitInv(s) /\ Len(s.text) = Len(import.split.text) + 1
  BY <1>1, <1>2, <1>3, LibraryAssumption, ScanKeeps
<1>5. s \in Splitter
  BY <1>4 DEF SplitInv
<1>6. import' \in Import /\ import'.split = s /\ import'.pending = import.pending
      /\ import'.pc = import.pc /\ import'.succeeded = import.succeeded /\ import'.failed = import.failed
  BY <1>2, <1>5 DEF LibraryInv, Import
<1>7. LibraryOK'
  BY <1>2, <1>3, <1>5, <1>6, LibraryAssumption DEF LibraryInv, LibraryOK
<1>8. Splitting'
  BY <1>2, <1>3, <1>4, <1>6 DEF Splitting
<1>9. LawsRight'
  BY <1>2, <1>6 DEF LibraryInv, LawsRight
<1>10. Counted'
  BY <1>2, <1>6 DEF LibraryInv, Counted, ImportedLaws
<1> QED
  BY <1>6, <1>7, <1>8, <1>9, <1>10 DEF LibraryInv

LEMMA FailureKeeps ==
    ASSUME LibraryInv, NEW insert \in BOOLEAN, EntryFails(insert)
    PROVE  LibraryInv'
<1>1. CASE import.batch
  <2>9. PICK bad \in BOOLEAN : bad = (import.poisoned \/ insert)
    OBVIOUS
  <2>1. PICK new : new = [import EXCEPT !.pc = "entry", !.split = NewSplitter,
                                        !.failed = import.failed + 1, !.poisoned = bad]
    OBVIOUS
  <2>2. import.pc = "reading" /\ import' = new /\ UNCHANGED <<library, linesRead, told, byHand>>
    BY <1>1, <2>1, <2>9 DEF EntryFails, LibraryInv, Import
  <2>3. NewSplitter \in Splitter
    BY EmptySplit DEF SplitInv
  <2>4. /\ new \in Import /\ new.pc = "entry" /\ new.split = NewSplitter
        /\ new.pending = import.pending /\ new.succeeded = import.succeeded
        /\ new.failed = import.failed + 1
    <3>1. import \in Import /\ import.failed + 1 \in Nat
      BY DEF LibraryInv, Import
    <3> QED
      BY <2>1, <2>3, <3>1 DEF Import
  <2>5. LibraryOK' /\ Splitting'
    BY <2>2, <2>3, <2>4, IdleSplits DEF LibraryInv, LibraryOK, Import
  <2>6. LawsRight'
    BY <2>2, <2>4 DEF LibraryInv, LawsRight
  <2>7. Len(library) \in Nat /\ import.succeeded \in Nat /\ import.failed \in Nat /\ MaxBatch \in Nat
    BY LibraryAssumption DEF LibraryInv, LibraryOK, Import
  <2>8. Counted'
    BY <2>2, <2>4, <2>7 DEF LibraryInv, Counted, ImportedLaws
  <2> QED
    BY <2>2, <2>4, <2>5, <2>6, <2>8 DEF LibraryInv
<1>2. CASE ~import.batch
  BY <1>2, DropKeeps DEF EntryFails
<1> QED
  BY <1>1, <1>2


LEMMA ImportKeeps ==
    ASSUME LibraryInv, NEW future \in BOOLEAN, ImportLaw(future)
    PROVE  LibraryInv'
<1>1. PICK law : law = [status |-> ImportStatus(future), future |-> future,
                        text |-> import.split.text, clauses |-> Clauses(import.split)]
  OBVIOUS
<1>2. PICK pc : pc = IF import.batch THEN "entry" ELSE "commit"
  OBVIOUS
<1>3. PICK new : new = [import EXCEPT !.pc = pc, !.split = NewSplitter,
                                      !.succeeded = import.succeeded + 1,
                                      !.pending = Append(import.pending, law)]
  OBVIOUS
<1>4. /\ import.pc = "reading" /\ import' = new /\ UNCHANGED <<library, linesRead, told, byHand>>
      /\ \E i \in DOMAIN import.split.text : import.split.text[i] \notin Blanks
  BY <1>1, <1>2, <1>3 DEF ImportLaw, LibraryInv, Import, Refuses
<1>5. /\ SplitInv(import.split) /\ import.split \in Splitter /\ import.pending \in Seq(LegalDocument)
      /\ import \in Import
  BY DEF LibraryInv, Import, Splitting
<1>6. Clauses(import.split) \in Seq(Clause) /\ LawRight(law)
  BY <1>1, <1>4, <1>5, SplitIsRight
<1>7. law \in LegalDocument /\ law.future = future /\ (future => law.status = "draft")
  BY <1>1, <1>5, <1>6 DEF LegalDocument, Splitter, ImportStatus, LawStatus
<1>8. /\ Append(import.pending, law) \in Seq(LegalDocument)
      /\ Len(Append(import.pending, law)) = Len(import.pending) + 1
      /\ DOMAIN Append(import.pending, law) = DOMAIN import.pending \cup {Len(import.pending) + 1}
      /\ Append(import.pending, law)[Len(import.pending) + 1] = law
      /\ \A p \in DOMAIN import.pending : Append(import.pending, law)[p] = import.pending[p]
  BY <1>5, <1>7, Appended
<1>9. NewSplitter \in Splitter
  BY EmptySplit DEF SplitInv
<1>10. /\ new \in Import /\ new.pc \in {"entry", "commit"} /\ new.split = NewSplitter
       /\ new.pending = Append(import.pending, law) /\ new.succeeded = import.succeeded + 1
       /\ new.failed = import.failed
  <2>1. import.succeeded + 1 \in Nat /\ pc \in {"entry", "commit"}
    BY <1>2, <1>5 DEF Import
  <2> QED
    BY <1>3, <1>5, <1>8, <1>9, <2>1 DEF Import
<1>11. LibraryOK' /\ Splitting'
  BY <1>4, <1>8, <1>9, <1>10, IdleSplits DEF LibraryInv, LibraryOK, Import
<1>12. LawsRight'
  <2>1. \A p \in DOMAIN new.pending :
            LawRight(new.pending[p]) /\ (new.pending[p].future => new.pending[p].status = "draft")
    BY <1>6, <1>7, <1>8, <1>10 DEF LibraryInv, LawsRight
  <2> QED
    BY <1>4, <2>1 DEF LibraryInv, LawsRight
<1>13. /\ Len(library) \in Nat /\ import.succeeded \in Nat /\ import.failed \in Nat /\ MaxBatch \in Nat
       /\ Len(import.pending) \in Nat
  BY LibraryAssumption DEF LibraryInv, LibraryOK, Import
<1>14. Counted'
  <2>1. /\ Len(import.pending) = import.succeeded /\ told <= Len(library)
        /\ Len(library) + import.succeeded + import.failed < MaxBatch
    BY <1>4 DEF LibraryInv, Counted, ImportedLaws
  <2>2. /\ import'.pc \in {"entry", "commit"} /\ library' = library /\ told' = told
        /\ Len(import'.pending) = Len(import.pending) + 1
        /\ import'.succeeded = import.succeeded + 1 /\ import'.failed = import.failed
    BY <1>4, <1>8, <1>10
  <2>3. Len(library) <= MaxBatch /\ ImportedLaws' <= MaxBatch
    BY <1>13, <2>1, <2>2, SMTT(30) DEF ImportedLaws
  <2> QED
    BY <2>1, <2>2, <2>3 DEF Counted
<1> QED
  BY <1>4, <1>10, <1>11, <1>12, <1>14 DEF LibraryInv

LEMMA NextKeeps ==
    ASSUME LibraryInv, NextEntry
    PROVE  LibraryInv'
<1>1. PICK pc \in {"reading", "commit"} :
        (pc = "reading" => ImportedLaws < MaxBatch) /\ import' = [import EXCEPT !.pc = pc]
  BY DEF NextEntry
<1>2. import.pc = "entry" /\ UNCHANGED <<library, linesRead, told, byHand>>
  BY DEF NextEntry
<1>3. /\ import' \in Import /\ import'.pc = pc /\ import'.split = import.split
      /\ import'.pending = import.pending /\ import'.succeeded = import.succeeded
      /\ import'.failed = import.failed
  <2>1. import \in Import
    BY DEF LibraryInv
  <2>2. PICK new : new = [import EXCEPT !.pc = pc]
    OBVIOUS
  <2>3. pc \in {"idle", "reading", "entry", "commit", "audit"}
    OBVIOUS
  <2>4. /\ new \in Import /\ new.pc = pc /\ new.split = import.split
        /\ new.pending = import.pending /\ new.succeeded = import.succeeded
        /\ new.failed = import.failed
    BY <2>1, <2>2, <2>3 DEF Import
  <2>5. import' = new
    BY <1>1, <2>2
  <2> QED
    BY <2>4, <2>5
<1>4. LibraryOK' /\ Splitting' /\ LawsRight'
  BY <1>2, <1>3 DEF LibraryInv, LibraryOK, Import, Splitting, LawsRight
<1>5. Counted'
  BY <1>1, <1>2, <1>3 DEF LibraryInv, Counted, ImportedLaws
<1> QED
  BY <1>3, <1>4, <1>5 DEF LibraryInv

LEMMA StoringKeeps ==
    ASSUME LibraryInv, CommitImport
    PROVE  LibraryInv' /\ \A l \in DOMAIN library : l \in DOMAIN library' /\ library'[l] = library[l]
<1>1. CASE import.poisoned
  <2>1. import' = NoImport /\ UNCHANGED <<library, linesRead, told, byHand>>
    BY <1>1 DEF CommitImport
  <2> QED
    BY <2>1, DropKeeps
<1>2. CASE ~import.poisoned
  <2>1. PICK new : new = [import EXCEPT !.pc = "audit", !.pending = <<>>]
    OBVIOUS
  <2>2. PICK laws : laws = library \o import.pending
    OBVIOUS
  <2>3. /\ import.pc = "commit" /\ library' = laws /\ import' = new
        /\ UNCHANGED <<linesRead, told, byHand>>
    BY <1>2, <2>1, <2>2 DEF CommitImport, StoreLaws
  <2>4. /\ library \in Seq(LegalDocument) /\ import.pending \in Seq(LegalDocument)
        /\ byHand \subseteq DOMAIN library /\ import \in Import
    BY DEF LibraryInv, LibraryOK
  <2>5. /\ laws \in Seq(LegalDocument) /\ Len(laws) = Len(library) + Len(import.pending)
        /\ \A l \in 1..Len(library) + Len(import.pending) :
              laws[l] = IF l <= Len(library) THEN library[l] ELSE import.pending[l - Len(library)]
    BY <2>2, <2>4, ConcatProperties
  <2>6. /\ Len(library) \in Nat /\ Len(import.pending) \in Nat /\ DOMAIN library = 1..Len(library)
        /\ DOMAIN import.pending = 1..Len(import.pending)
        /\ DOMAIN laws = 1..Len(library) + Len(import.pending)
    BY <2>4, <2>5
  <2>7. \A l \in DOMAIN laws :
            \/ l \in DOMAIN library /\ laws[l] = library[l]
            \/ l - Len(library) \in DOMAIN import.pending /\ laws[l] = import.pending[l - Len(library)]
    BY <2>5, <2>6
  <2>8. \A l \in DOMAIN library : l \in DOMAIN laws /\ laws[l] = library[l]
    BY <2>5, <2>6
  <2>9. /\ new \in Import /\ new.pc = "audit" /\ new.pending = <<>> /\ new.split = import.split
        /\ new.succeeded = import.succeeded
    <3>1. <<>> \in Seq(LegalDocument)
      OBVIOUS
    <3> QED
      BY <2>1, <2>4, <3>1 DEF Import
  <2>10. LibraryOK' /\ Splitting'
    BY <2>3, <2>4, <2>5, <2>8, <2>9 DEF LibraryInv, LibraryOK, Import, Splitting
  <2>11. LawsRight'
    <3>1. \A l \in DOMAIN laws : LawRight(laws[l]) /\ (laws[l].future => laws[l].status = "draft" \/ l \in byHand)
      BY <2>7 DEF LibraryInv, LawsRight
    <3>2. DOMAIN new.pending = {}
      BY <2>9
    <3> QED
      BY <2>3, <3>1, <3>2 DEF LawsRight
  <2>12. import.succeeded \in Nat /\ import.failed \in Nat /\ told \in Nat /\ MaxBatch \in Nat
    BY LibraryAssumption DEF LibraryInv, LibraryOK, Import
  <2>13. Counted'
    BY <2>3, <2>5, <2>6, <2>9, <2>12, SMTT(30) DEF LibraryInv, Counted, ImportedLaws
  <2> QED
    BY <2>3, <2>8, <2>9, <2>10, <2>11, <2>13 DEF LibraryInv
<1> QED
  BY <1>1, <1>2

LEMMA AnswerKeeps ==
    ASSUME LibraryInv, NEW ok \in BOOLEAN, AnswerImport(ok)
    PROVE  LibraryInv'
<1>1. /\ import.pc = "audit" /\ import' = NoImport /\ UNCHANGED <<library, linesRead, byHand>>
      /\ told' = told + IF ok THEN import.succeeded ELSE 0
  BY DEF AnswerImport
<1>2. import.succeeded \in Nat /\ told \in Nat
  BY DEF LibraryInv, LibraryOK, Import
<1>3. told' \in Nat /\ told' <= told + import.succeeded
  BY <1>1, <1>2
<1>4. LibraryOK' /\ import' \in Import
  BY <1>1, <1>3, NoImportIs DEF LibraryInv, LibraryOK, Import
<1>5. Splitting'
  BY <1>1, NoImportIs, IdleSplits DEF LibraryInv, LibraryOK
<1>6. LawsRight'
  BY <1>1, NoImportIs DEF LibraryInv, LawsRight
<1>7. Len(library) \in Nat
  BY DEF LibraryInv, LibraryOK
<1>8. Counted'
  BY <1>1, <1>2, <1>3, <1>7, NoImportIs DEF LibraryInv, Counted
<1> QED
  BY <1>4, <1>5, <1>6, <1>8 DEF LibraryInv

LEMMA StatusKeeps ==
    ASSUME LibraryInv, NEW l \in DOMAIN library, NEW status \in LawStatus, UpdateLawStatus(l, status)
    PROVE  /\ LibraryInv'
           /\ \A k \in DOMAIN library : k \in DOMAIN library' /\ library'[k].future = library[k].future
           /\ byHand \subseteq byHand'
<1>1. PICK law : law = [library[l] EXCEPT !.status = status]
  OBVIOUS
<1>2. library \in Seq(LegalDocument) /\ byHand \subseteq DOMAIN library
  BY DEF LibraryInv, LibraryOK
<1>3. library[l] \in LegalDocument
  BY <1>2
<1>4. /\ law \in LegalDocument /\ law.future = library[l].future
      /\ law.text = library[l].text /\ law.clauses = library[l].clauses
  BY <1>1, <1>3 DEF LegalDocument
<1>5. /\ library' = [library EXCEPT ![l] = law] /\ byHand' = byHand \cup {l}
      /\ UNCHANGED <<import, linesRead, told>>
  BY <1>1 DEF UpdateLawStatus
<1>6. /\ library' \in Seq(LegalDocument) /\ DOMAIN library' = DOMAIN library
      /\ Len(library') = Len(library) /\ library'[l] = law
      /\ \A k \in DOMAIN library : k # l => library'[k] = library[k]
  BY <1>2, <1>4, <1>5
<1>7. LibraryOK' /\ Splitting'
  BY <1>2, <1>5, <1>6 DEF LibraryInv, LibraryOK, Splitting
<1>8. LawsRight'
  <2>1. LawRight(law)
    BY <1>4 DEF LibraryInv, LawsRight, LawRight, SplitRight
  <2> QED
    BY <1>4, <1>5, <1>6, <2>1 DEF LibraryInv, LawsRight
<1>9. Counted'
  BY <1>5, <1>6 DEF LibraryInv, Counted, ImportedLaws
<1> QED
  BY <1>4, <1>5, <1>6, <1>7, <1>8, <1>9 DEF LibraryInv

LEMMA LibraryStays ==
    ASSUME LibraryInv, UNCHANGED lawLibrary
    PROVE  LibraryInv'
BY DEF LibraryInv, LibraryOK, Splitting, LawsRight, Counted, ImportedLaws, lawLibrary

(* Every step keeps the invariant; laws are only added, and neither their    *)
(* date nor the memory of who has set a status changes.                     *)
LEMMA LibraryKeeps ==
    ASSUME LibraryInv, LibraryMove
    PROVE  /\ LibraryInv'
           /\ \A l \in DOMAIN library : l \in DOMAIN library' /\ library'[l].future = library[l].future
           /\ byHand \subseteq byHand'
<1>1. CASE \E b \in BOOLEAN : StartImport(b) \/ EntryFails(b) \/ ImportLaw(b) \/ AnswerImport(b)
  <2>1. LibraryInv'
    BY <1>1, StartKeeps, FailureKeeps, ImportKeeps, AnswerKeeps
  <2>2. UNCHANGED <<library, byHand>>
    BY <1>1 DEF StartImport, EntryFails, ImportLaw, AnswerImport
  <2> QED
    BY <2>1, <2>2
<1>2. CASE \E kind \in Kinds : ReadLine(kind)
  <2>1. LibraryInv'
    BY <1>2, ReadKeeps
  <2> QED
    BY <1>2, <2>1 DEF ReadLine
<1>3. CASE NextEntry
  <2>1. LibraryInv'
    BY <1>3, NextKeeps
  <2> QED
    BY <1>3, <2>1 DEF NextEntry
<1>4. CASE CommitImport
  <2>1. byHand' = byHand
    BY <1>4 DEF CommitImport
  <2> QED
    BY <1>4, <2>1, StoringKeeps
<1>5. CASE RestartLibrary
  BY <1>5, DropKeeps DEF RestartLibrary
<1>6. CASE \E l \in DOMAIN library, status \in LawStatus : UpdateLawStatus(l, status)
  BY <1>6, StatusKeeps
<1>7. CASE UNCHANGED lawLibrary
  BY <1>7, LibraryStays DEF lawLibrary
<1>8. CASE \E l \in DOMAIN library : CheckTimeValidity(l)
  BY <1>7, <1>8 DEF CheckTimeValidity, Discarded, lawLibrary
<1> QED
  BY <1>1, <1>2, <1>3, <1>4, <1>5, <1>6, <1>7, <1>8 DEF LibraryMove

(* What the invariant gives the runs' properties.                           *)
LEMMA LibraryGives ==
    ASSUME LibraryInv
    PROVE  /\ LibraryOK /\ LawsAreSplit /\ told <= Len(library)
           /\ Retrievable \subseteq 1..MaxBatch /\ Retrievable \subseteq DOMAIN library
           /\ \A l \in Retrievable : library[l].future => l \in byHand
<1>1. LibraryOK /\ LawsAreSplit /\ told <= Len(library)
  BY DEF LibraryInv, LawsRight, LawRight, LawsAreSplit, Counted
<1>2. DOMAIN library \subseteq 1..MaxBatch
  <2>1. library \in Seq(LegalDocument) /\ Len(library) <= MaxBatch
    BY DEF LibraryInv, LibraryOK, Counted
  <2> QED
    BY <2>1, LibraryAssumption
<1>3. \A l \in Retrievable : l \in DOMAIN library /\ (library[l].future => l \in byHand)
  BY DEF Retrievable, LibraryInv, LawsRight
<1> QED
  BY <1>1, <1>2, <1>3

=============================================================================
