----------------------- MODULE BankReconciliation_proofs -----------------------
(***************************************************************************)
(* Proofs about BankReconciliation: the types and references of its rows,  *)
(* matching one to one over all sessions, and what the difference of a     *)
(* closed session consists of.                                             *)
(***************************************************************************)
EXTENDS BankReconciliation, Totals_proofs, SequenceTheorems

-----------------------------------------------------------------------------
(* The invariant.                                                          *)

\* Also a match that is only proposed joins a line of its session to a
\* movement of the same amount.
Paired ==
  \A m \in matches : m.line \in LinesOf(m.session) /\ SameAmount(m.line, m.document)

IInv == TypeOK /\ Paired /\ OneToOne

\* What is known of the rows there are.
LEMMA RowsTyped ==
  ASSUME TypeOK
  PROVE  /\ Len(documents) \in Nat /\ DOMAIN documents = 1 .. Len(documents)
         /\ Len(lines) \in Nat /\ DOMAIN lines = 1 .. Len(lines)
         /\ \A d \in DOMAIN documents : documents[d] \in DocumentType
         /\ \A l \in DOMAIN lines : lines[l] \in LineType
         /\ \A s \in Sessions : session[s] \in SessionType
<1>1. documents \in Seq(DocumentType) /\ lines \in Seq(LineType) /\ session \in [Sessions -> SessionType]
  BY DEF TypeOK
<1> QED BY <1>1, LenProperties, ElementOfSeq

-----------------------------------------------------------------------------
(* What a step leaves as it was.                                           *)

\* Movements, the facts of lines and the dates of sessions never change.
Stands ==
  /\ DOMAIN documents \subseteq DOMAIN documents'
  /\ \A d \in DOMAIN documents :
       documents'[d].amount = documents[d].amount /\ documents'[d].day = documents[d].day
  /\ DOMAIN lines \subseteq DOMAIN lines'
  /\ \A l \in DOMAIN lines :
       /\ lines'[l].amount = lines[l].amount /\ lines'[l].day = lines[l].day
       /\ lines'[l].of = lines[l].of
  /\ \A s \in Sessions : session[s].state \in {"OPEN", "CLOSED"} =>
       /\ session'[s].state \in {"OPEN", "CLOSED"}
       /\ session'[s].from = session[s].from /\ session'[s].to = session[s].to

\* The rows other than the matches are typed and stand.
RowsStand ==
  /\ documents' \in Seq(DocumentType) /\ lines' \in Seq(LineType)
  /\ session' \in [Sessions -> SessionType]
  /\ Stands

\* Matches that stay keep their line, amount and dates.
LEMMA MatchStands ==
  ASSUME IInv, Stands, NEW m \in matches
  PROVE  /\ session'[m.session].state \in {"OPEN", "CLOSED"}
         /\ m.line \in DOMAIN lines' /\ m.document \in DOMAIN documents'
         /\ m.line \in LinesOf(m.session)' /\ SameAmount(m.line, m.document)'
         /\ InRange(m.session, documents[m.document].day) =>
              InRange(m.session, documents[m.document].day)'
<1>1. /\ m \in MatchType /\ session[m.session].state \in {"OPEN", "CLOSED"}
      /\ m.line \in DOMAIN lines /\ m.document \in DOMAIN documents /\ m.session \in Sessions
  BY DEF IInv, TypeOK, MatchType
<1>2. m.line \in LinesOf(m.session) /\ SameAmount(m.line, m.document)
  BY DEF IInv, Paired
<1>3. /\ session'[m.session].state \in {"OPEN", "CLOSED"}
      /\ session'[m.session].from = session[m.session].from
      /\ session'[m.session].to = session[m.session].to
  BY <1>1 DEF Stands
<1>4. /\ m.line \in DOMAIN lines' /\ m.document \in DOMAIN documents'
      /\ lines'[m.line].amount = lines[m.line].amount /\ lines'[m.line].day = lines[m.line].day
      /\ lines'[m.line].of = lines[m.line].of
      /\ documents'[m.document].amount = documents[m.document].amount
      /\ documents'[m.document].day = documents[m.document].day
  BY <1>1 DEF Stands
<1> QED BY <1>2, <1>3, <1>4 DEF LinesOf, InRange, SameAmount

\* A document that is posted, and one that is reversed.
LEMMA PostingStands ==
  ASSUME IInv, Posting
  PROVE  RowsStand
<1>1. ASSUME NEW day \in Days, NEW amount \in Int, NEW quote \in Quotes, NEW old \in Seq(DocumentType),
             Len(old) = Len(documents),
             \A d \in 1 .. Len(documents) : old[d].amount = documents[d].amount /\ old[d].day = documents[d].day,
             documents' = Append(old, [day |-> day, amount |-> amount, quote |-> quote, status |-> "POSTED"]),
             UNCHANGED <<lines, session, matches>>
      PROVE  RowsStand
  <2> DEFINE e == [day |-> day, amount |-> amount, quote |-> quote, status |-> "POSTED"]
  <2>1. e \in DocumentType
    BY DEF DocumentType
  <2> HIDE DEF e
  <2>2. /\ Append(old, e) \in Seq(DocumentType) /\ Len(Append(old, e)) = Len(old) + 1
        /\ \A i \in 1 .. Len(old) : Append(old, e)[i] = old[i]
    BY <2>1, AppendProperties
  <2>3. documents' = Append(old, e)
    BY <1>1 DEF e
  <2>4. DOMAIN documents' = 1 .. Len(documents) + 1 /\ Len(documents) \in Nat /\ DOMAIN documents = 1 .. Len(documents)
    BY <1>1, <2>2, <2>3, LenProperties, RowsTyped DEF IInv
  <2>5. Stands
    BY <1>1, <2>2, <2>3, <2>4 DEF Stands
  <2> QED BY <1>1, <2>2, <2>3, <2>5 DEF RowsStand, IInv, TypeOK
<1>2. documents \in Seq(DocumentType) /\ Len(documents) \in Nat /\ DOMAIN documents = 1 .. Len(documents)
  BY RowsTyped DEF IInv, TypeOK
<1>3. CASE \E day \in Days, amount \in Amounts, quote \in Quotes : Post(day, amount, quote)
  <2>1. PICK day \in Days, amount \in Amounts, quote \in Quotes : Post(day, amount, quote)
    BY <1>3
  <2>2. amount \in Int
    BY ReconciliationAssumption
  <2> QED BY <1>1, <1>2, <2>1, <2>2 DEF Post
<1>4. CASE \E d \in DOMAIN documents, day \in Days : Reverse(d, day)
  <2>1. PICK d \in DOMAIN documents, day \in Days : Reverse(d, day)
    BY <1>4
  <2> DEFINE e == [documents[d] EXCEPT !.status = "REVERSED"]
             old == [documents EXCEPT ![d] = e]
  <2>2. documents[d] \in DocumentType /\ documents[d].amount \in Int
    BY RowsTyped DEF IInv, DocumentType
  <2>3. e \in DocumentType /\ e.amount = documents[d].amount /\ e.day = documents[d].day
    <3>1. \A x \in DocumentType :
            LET y == [x EXCEPT !.status = "REVERSED"]
            IN  y \in DocumentType /\ y.amount = x.amount /\ y.day = x.day
      BY DEF DocumentType
    <3> QED BY <2>2, <3>1
  <2>4. documents' = Append(old, [day |-> day, amount |-> 0 - documents[d].amount, quote |-> NoReference, status |-> "POSTED"])
        /\ UNCHANGED <<lines, session, matches>>
    BY <2>1 DEF Reverse
  <2> HIDE DEF e
  <2>5. /\ old \in Seq(DocumentType) /\ Len(old) = Len(documents)
        /\ \A j \in 1 .. Len(documents) : old[j] = IF j = d THEN e ELSE documents[j]
    BY <1>2, <2>3, ExceptSeq
  <2> HIDE DEF old
  <2>6. \A j \in 1 .. Len(documents) : old[j].amount = documents[j].amount /\ old[j].day = documents[j].day
    BY <2>3, <2>5
  <2>7. 0 - documents[d].amount \in Int /\ NoReference \in Quotes
    BY <2>2 DEF Quotes
  <2> QED BY <1>1, <2>4, <2>5, <2>6, <2>7
<1> QED BY <1>3, <1>4 DEF Posting

\* A statement that is committed, and a session that is created.
LEMMA ImportingStands ==
  ASSUME IInv, NEW s \in Sessions, Importing(s)
  PROVE  RowsStand /\ \A l \in DOMAIN lines : lines'[l].classified = lines[l].classified
<1>1. /\ documents \in Seq(DocumentType) /\ lines \in Seq(LineType) /\ session \in [Sessions -> SessionType]
      /\ session[s] \in SessionType /\ DOMAIN lines = 1 .. Len(lines) /\ Len(lines) \in Nat
  BY RowsTyped DEF IInv, TypeOK
<1>2. CASE CreateSession(s)
  <2> DEFINE r == [session[s] EXCEPT !.state = "OPEN"]
  <2>1. r \in SessionType /\ r.state = "OPEN"
    <3>1. \A x \in SessionType :
            [x EXCEPT !.state = "OPEN"] \in SessionType /\ [x EXCEPT !.state = "OPEN"].state = "OPEN"
      BY DEF SessionType
    <3> QED BY <1>1, <3>1
  <2>2. /\ session' = [session EXCEPT ![s] = r] /\ session[s].state = "COMMITTED"
        /\ UNCHANGED <<documents, lines, matches>>
    BY <1>1, <1>2 DEF CreateSession
  <2> HIDE DEF r
  <2>3. session' \in [Sessions -> SessionType] /\ \A x \in Sessions \ {s} : session'[x] = session[x]
    BY <1>1, <2>1, <2>2
  <2> QED BY <1>1, <2>2, <2>3 DEF RowsStand, Stands
<1>3. ASSUME NEW from \in Days, NEW to \in Days, NEW n \in 1 .. MaxLines,
             NEW facts \in [1 .. n -> {Fact(s, day, amount, quote) :
                                         day \in Days, amount \in Amounts, quote \in Quotes}],
             CommitImport(s, from, to, facts)
      PROVE  RowsStand /\ \A l \in DOMAIN lines : lines'[l].classified = lines[l].classified
  <2>1. facts \in Seq(LineType)
    <3>1. \A day \in Days, amount \in Amounts, quote \in Quotes : Fact(s, day, amount, quote) \in LineType
      <4>1. Days \subseteq Nat /\ Amounts \subseteq Int
        BY ReconciliationAssumption
      <4>2. \A day \in Days, amount \in Int, quote \in Quotes : Fact(s, day, amount, quote) \in LineType
        BY DEF Fact, LineType
      <4> QED BY <4>1, <4>2
    <3>2. facts \in [1 .. n -> LineType]
      BY <3>1
    <3>3. n \in Nat
      BY ReconciliationAssumption
    <3> QED BY <3>2, <3>3
  <2>2. /\ lines \o facts \in Seq(LineType)
        /\ Len(lines \o facts) = Len(lines) + Len(facts)
        /\ \A i \in 1 .. Len(lines) + Len(facts) :
             (lines \o facts)[i] = IF i <= Len(lines) THEN lines[i] ELSE facts[i - Len(lines)]
    BY <1>1, <2>1, ConcatProperties
  <2>3. lines' = lines \o facts /\ UNCHANGED <<documents, matches>> /\ session[s].state = "NONE"
    BY <1>3 DEF CommitImport
  <2>4. Len(facts) \in Nat /\ DOMAIN lines' = 1 .. Len(lines) + Len(facts)
    BY <2>1, <2>2, <2>3, LenProperties
  <2>5. /\ DOMAIN lines \subseteq DOMAIN lines'
        /\ \A l \in DOMAIN lines : lines'[l] = lines[l]
    BY <1>1, <2>2, <2>3, <2>4
  <2> DEFINE committed == [session EXCEPT ![s].state = "COMMITTED"]
             begun == [committed EXCEPT ![s].from = from]
             dated == [begun EXCEPT ![s].to = to]
  <2>6. from \in Nat /\ to \in Nat
    BY ReconciliationAssumption
  <2>7. session' = dated
    BY <1>3 DEF CommitImport
  <2>8. committed \in [Sessions -> SessionType] /\ \A x \in Sessions \ {s} : committed[x] = session[x]
    <3>1. \A x \in SessionType : [x EXCEPT !.state = "COMMITTED"] \in SessionType
      BY DEF SessionType
    <3> QED BY <1>1, <3>1
  <2> HIDE DEF committed
  <2>9. begun \in [Sessions -> SessionType] /\ \A x \in Sessions \ {s} : begun[x] = session[x]
    <3>1. \A x \in SessionType : [x EXCEPT !.from = from] \in SessionType
      BY <2>6 DEF SessionType
    <3> QED BY <2>8, <1>1, <3>1
  <2> HIDE DEF begun
  <2>10. dated \in [Sessions -> SessionType] /\ \A x \in Sessions \ {s} : dated[x] = session[x]
    <3>1. \A x \in SessionType : [x EXCEPT !.to = to] \in SessionType
      BY <2>6 DEF SessionType
    <3> QED BY <2>9, <1>1, <3>1
  <2> HIDE DEF dated
  <2>11. session' \in [Sessions -> SessionType] /\ \A x \in Sessions \ {s} : session'[x] = session[x]
    BY <2>7, <2>10
  <2>12. Stands
    <3>1. \A x \in Sessions : session[x].state \in {"OPEN", "CLOSED"} => session'[x] = session[x]
      BY <2>3, <2>11
    <3> QED BY <2>3, <2>5, <3>1 DEF Stands
  <2> QED BY <1>1, <2>2, <2>3, <2>5, <2>11, <2>12 DEF RowsStand
<1> QED BY <1>2, <1>3 DEF Importing

\* Where rows stand and no match is made, all that is matched stays so.
LEMMA UnmatchedKeeps ==
  ASSUME IInv, RowsStand, matches' = matches,
         \A l \in MatchedLines : lines'[l].classified = lines[l].classified
  PROVE  IInv'
<1>1. TypeOK'
  <2>1. \A m \in matches :
          /\ session'[m.session].state \in {"OPEN", "CLOSED"}
          /\ m.line \in DOMAIN lines' /\ m.document \in DOMAIN documents'
    BY MatchStands DEF RowsStand
  <2> QED BY <2>1 DEF RowsStand, IInv, TypeOK
<1>2. Paired'
  <2>1. \A m \in matches : m.line \in LinesOf(m.session)' /\ SameAmount(m.line, m.document)'
    BY MatchStands DEF RowsStand
  <2> QED BY <2>1 DEF Paired
<1>3. OneToOne'
  <2>1. Approved' = Approved /\ Approved \subseteq matches
    BY DEF Approved
  <2>2. ASSUME NEW m \in Approved
        PROVE  /\ m.line \in LinesOf(m.session)' /\ ~ lines'[m.line].classified
               /\ SameAmount(m.line, m.document)'
               /\ InRange(m.session, documents[m.document].day)'
    <3>1. ~ lines[m.line].classified /\ InRange(m.session, documents[m.document].day)
      BY DEF IInv, OneToOne
    <3>2. m.line \in MatchedLines
      BY DEF MatchedLines
    <3> QED BY <2>1, <3>1, <3>2, MatchStands DEF RowsStand
  <2>3. \A m \in Approved : \A n \in Approved \ {m} : m.line # n.line /\ m.document # n.document
    BY DEF IInv, OneToOne
  <2> QED BY <2>1, <2>2, <2>3 DEF OneToOne
<1> QED BY <1>1, <1>2, <1>3 DEF IInv

\* What the rules propose joins open lines to free movements of their amount.
LEMMA ProposedIs ==
  ASSUME NEW open, NEW free, NEW window, NEW pairs \in Proposed(open, free, window)
  PROVE  \A p \in pairs : p \in open \X free /\ SameAmount(p[1], p[2])
BY DEF Proposed, Rounds

\* New suggestions.
LEMMA SuggestingKeeps ==
  ASSUME IInv, NEW s \in Sessions, NEW window \in Windows, GenerateSuggestions(s, window)
  PROVE  IInv'
<1> DEFINE open == {l \in LinesOf(s) \ MatchedLines : ~ lines[l].classified}
           free == Snapshot(s) \ MatchedDocuments
           Suggestion(p) == [session |-> s, line |-> p[1], document |-> p[2], status |-> "PROPOSED"]
<1>1. PICK pairs \in Proposed(open, free, window) :
        matches' = {m \in matches : m.session = s => m.status = "APPROVED"} \union {Suggestion(p) : p \in pairs}
  BY DEF GenerateSuggestions
<1>2. \A p \in pairs : p \in open \X free /\ SameAmount(p[1], p[2])
  BY ProposedIs
<1>3. UNCHANGED <<documents, lines, session>> /\ session[s].state = "OPEN"
  BY DEF GenerateSuggestions, IsOpen
<1>4. ASSUME NEW p \in pairs
      PROVE  /\ Suggestion(p) \in MatchType /\ Suggestion(p).session = s /\ Suggestion(p).status = "PROPOSED"
             /\ Suggestion(p).line \in LinesOf(s) /\ Suggestion(p).line \in DOMAIN lines
             /\ Suggestion(p).document \in DOMAIN documents
             /\ SameAmount(Suggestion(p).line, Suggestion(p).document)
  <2>1. /\ p[1] \in LinesOf(s) /\ p[2] \in Snapshot(s) /\ SameAmount(p[1], p[2])
    BY <1>2
  <2>2. p[1] \in DOMAIN lines /\ p[2] \in DOMAIN documents
    BY <2>1 DEF LinesOf, Snapshot
  <2>3. p[1] \in Nat /\ p[2] \in Nat
    BY <2>2, RowsTyped DEF IInv
  <2> QED BY <2>1, <2>2, <2>3 DEF MatchType
<1> HIDE DEF open, free, Suggestion
<1>5. \A m \in matches' : m \in matches \/ \E p \in pairs : m = Suggestion(p)
  BY <1>1
<1>6. TypeOK'
  <2>1. \A m \in matches' : /\ m \in MatchType /\ session[m.session].state \in {"OPEN", "CLOSED"}
                            /\ m.line \in DOMAIN lines /\ m.document \in DOMAIN documents
    BY <1>3, <1>4, <1>5 DEF IInv, TypeOK
  <2> QED BY <1>3, <2>1 DEF IInv, TypeOK
<1>7. Paired'
  <2>1. \A m \in matches' : m.line \in LinesOf(m.session) /\ SameAmount(m.line, m.document)
    BY <1>4, <1>5 DEF IInv, Paired
  <2> QED BY <1>3, <2>1 DEF Paired, LinesOf, InRange, SameAmount
<1>8. Approved' = Approved
  BY <1>1, <1>4 DEF Approved
<1>9. OneToOne'
  BY <1>3, <1>8 DEF IInv, OneToOne, LinesOf, InRange, SameAmount
<1> QED BY <1>6, <1>7, <1>9 DEF IInv

\* A match that is approved, from a suggestion or by hand.
LEMMA ApprovalKeeps ==
  ASSUME IInv, NEW m \in MatchType, m.status = "APPROVED",
         IsOpen(m.session), m.line \in LinesOf(m.session), ~ lines[m.line].classified,
         m.document \in Snapshot(m.session), SameAmount(m.line, m.document),
         NotTaken(m.line, m.document),
         matches' \subseteq matches \union {m}, Approved' = Approved \union {m},
         UNCHANGED <<documents, lines, session>>
  PROVE  IInv'
<1>1. /\ m.line \in DOMAIN lines /\ m.document \in DOMAIN documents
      /\ InRange(m.session, documents[m.document].day) /\ session[m.session].state = "OPEN"
  BY DEF LinesOf, Snapshot, IsOpen
<1>2. TypeOK'
  BY <1>1 DEF IInv, TypeOK
<1>3. Paired'
  <2>1. \A n \in matches' : n.line \in LinesOf(n.session) /\ SameAmount(n.line, n.document)
    BY DEF IInv, Paired
  <2> QED BY <2>1 DEF Paired, LinesOf, InRange, SameAmount
<1>4. OneToOne'
  <2>1. \A n \in Approved : n.line # m.line /\ n.document # m.document
    BY DEF NotTaken, MatchedLines, MatchedDocuments
  <2>2. \A x \in Approved \union {m} :
          /\ \A n \in (Approved \union {m}) \ {x} : x.line # n.line /\ x.document # n.document
          /\ x.line \in LinesOf(x.session) /\ ~ lines[x.line].classified
          /\ SameAmount(x.line, x.document) /\ InRange(x.session, documents[x.document].day)
    BY <1>1, <2>1 DEF IInv, OneToOne
  <2> QED BY <2>2 DEF OneToOne, LinesOf, InRange, SameAmount
<1> QED BY <1>2, <1>3, <1>4 DEF IInv

\* The commands on one match.
LEMMA MatchingKeeps ==
  /\ \A m \in matches : IInv /\ ApproveSuggestion(m) => IInv'
  /\ \A m \in matches : IInv /\ ReleaseMatch(m) => IInv'
  /\ \A s \in Sessions : \A l \in DOMAIN lines, d \in DOMAIN documents :
       IInv /\ ManualMatch(s, l, d) => IInv'
<1>1. ASSUME NEW m \in matches, IInv, ApproveSuggestion(m) PROVE IInv'
  <2> DEFINE a == [m EXCEPT !.status = "APPROVED"]
  <2>1. m \in MatchType
    BY <1>1 DEF IInv, TypeOK
  <2>2. /\ a \in MatchType /\ a.status = "APPROVED" /\ a.session = m.session
        /\ a.line = m.line /\ a.document = m.document
    <3>1. \A x \in MatchType :
            LET y == [x EXCEPT !.status = "APPROVED"]
            IN  /\ y \in MatchType /\ y.status = "APPROVED" /\ y.session = x.session
                /\ y.line = x.line /\ y.document = x.document
      BY DEF MatchType
    <3> QED BY <2>1, <3>1
  <2>3. /\ IsOpen(m.session) /\ m.status = "PROPOSED" /\ ~ lines[m.line].classified
        /\ m.document \in Snapshot(m.session) /\ NotTaken(m.line, m.document)
        /\ matches' = (matches \ {m}) \union {a} /\ UNCHANGED <<documents, lines, session>>
    BY <1>1 DEF ApproveSuggestion
  <2> HIDE DEF a
  <2>4. Approved' = Approved \union {a} /\ matches' \subseteq matches \union {a}
    BY <2>2, <2>3 DEF Approved
  <2>5. m.line \in LinesOf(m.session) /\ SameAmount(m.line, m.document)
    BY <1>1 DEF IInv, Paired
  <2> QED BY <1>1, <2>2, <2>3, <2>4, <2>5, ApprovalKeeps
<1>2. ASSUME NEW m \in matches, IInv, ReleaseMatch(m) PROVE IInv'
  <2>1. matches' = matches \ {m} /\ UNCHANGED <<documents, lines, session>>
    BY <1>2 DEF ReleaseMatch
  <2>2. Approved' \subseteq Approved
    BY <2>1 DEF Approved
  <2>3. TypeOK' /\ Paired'
    BY <1>2, <2>1 DEF IInv, TypeOK, Paired, LinesOf, InRange, SameAmount
  <2>4. OneToOne'
    BY <1>2, <2>1, <2>2 DEF IInv, OneToOne, LinesOf, InRange, SameAmount
  <2> QED BY <2>3, <2>4 DEF IInv
<1>3. ASSUME NEW s \in Sessions, NEW l \in DOMAIN lines, NEW d \in DOMAIN documents,
             IInv, ManualMatch(s, l, d)
      PROVE  IInv'
  <2> DEFINE m == [session |-> s, line |-> l, document |-> d, status |-> "APPROVED"]
  <2>1. /\ m \in MatchType /\ m.status = "APPROVED" /\ m.session = s /\ m.line = l /\ m.document = d
    BY <1>3, RowsTyped DEF MatchType, IInv
  <2>2. /\ IsOpen(s) /\ l \in LinesOf(s) /\ ~ lines[l].classified
        /\ d \in Snapshot(s) /\ SameAmount(l, d) /\ NotTaken(l, d)
        /\ matches' = matches \union {m} /\ UNCHANGED <<documents, lines, session>>
    BY <1>3 DEF ManualMatch
  <2> HIDE DEF m
  <2>3. Approved' = Approved \union {m}
    BY <2>1, <2>2 DEF Approved
  <2> QED BY <1>3, <2>1, <2>2, <2>3, ApprovalKeeps
<1> QED BY <1>1, <1>2, <1>3

\* A line that is classified is matched by none.
LEMMA ClassifyKeeps ==
  ASSUME IInv, NEW s \in Sessions, NEW l \in DOMAIN lines, ClassifyLine(s, l)
  PROVE  IInv'
<1> DEFINE e == [lines[l] EXCEPT !.classified = TRUE]
<1>1. lines \in Seq(LineType) /\ l \in 1 .. Len(lines) /\ lines[l] \in LineType
  BY RowsTyped DEF IInv, TypeOK
<1>2. e \in LineType /\ e.amount = lines[l].amount /\ e.day = lines[l].day /\ e.of = lines[l].of
  <2>1. \A x \in LineType :
          LET y == [x EXCEPT !.classified = TRUE]
          IN  y \in LineType /\ y.amount = x.amount /\ y.day = x.day /\ y.of = x.of
    BY DEF LineType
  <2> QED BY <1>1, <2>1
<1>3. lines' = [lines EXCEPT ![l] = e] /\ UNCHANGED <<documents, session, matches>> /\ l \notin MatchedLines
  BY <1>1 DEF ClassifyLine
<1> HIDE DEF e
<1>4. /\ lines' \in Seq(LineType) /\ Len(lines') = Len(lines)
      /\ \A j \in 1 .. Len(lines) : lines'[j] = IF j = l THEN e ELSE lines[j]
  BY <1>1, <1>2, <1>3, ExceptSeq
<1>5. DOMAIN lines = 1 .. Len(lines) /\ DOMAIN lines' = 1 .. Len(lines)
  BY <1>1, <1>4, LenProperties
<1>6. RowsStand
  BY <1>2, <1>3, <1>4, <1>5 DEF RowsStand, Stands, IInv, TypeOK
<1>7. \A k \in MatchedLines : lines'[k].classified = lines[k].classified
  <2>1. \A k \in MatchedLines : k \in DOMAIN lines
    BY DEF MatchedLines, Approved, IInv, TypeOK
  <2> QED BY <1>3, <1>4, <1>5, <2>1
<1> QED BY <1>3, <1>6, <1>7, UnmatchedKeeps

\* The sums of lines and of movements are numbers.
LEMMA NetType ==
  ASSUME NEW S, IsFiniteSet(S), NEW f, \A x \in S : f[x] \in Int
  PROVE  Net(S, f) \in Int
<1>1. \A x \in S : /\ [y \in S |-> IF f[y] > 0 THEN f[y] ELSE 0][x] \in Nat
                   /\ [y \in S |-> IF f[y] < 0 THEN 0 - f[y] ELSE 0][x] \in Nat
  OBVIOUS
<1>2. /\ Total(S, [y \in S |-> IF f[y] > 0 THEN f[y] ELSE 0]) \in Nat
      /\ Total(S, [y \in S |-> IF f[y] < 0 THEN 0 - f[y] ELSE 0]) \in Nat
  BY <1>1, TotalType
<1> QED BY <1>2 DEF Net

\* Lines and movements of a session are finitely many, with whole amounts.
LEMMA Finite ==
  ASSUME TypeOK, NEW s
  PROVE  /\ IsFiniteSet(LinesOf(s)) /\ IsFiniteSet(Snapshot(s))
         /\ \A l \in LinesOf(s) : [k \in DOMAIN lines |-> lines[k].amount][l] \in Int
         /\ \A d \in Snapshot(s) : [k \in DOMAIN documents |-> documents[k].amount][d] \in Int
         /\ BankNet(s) \in Int /\ BookNet(s) \in Int
<1>1. /\ LinesOf(s) \subseteq 1 .. Len(lines) /\ Snapshot(s) \subseteq 1 .. Len(documents)
      /\ LinesOf(s) \subseteq DOMAIN lines /\ Snapshot(s) \subseteq DOMAIN documents
      /\ Len(lines) \in Nat /\ Len(documents) \in Nat
  BY RowsTyped DEF LinesOf, Snapshot
<1>2. IsFiniteSet(1 .. Len(lines)) /\ IsFiniteSet(1 .. Len(documents))
  BY <1>1, FS_Interval
<1>3. IsFiniteSet(LinesOf(s)) /\ IsFiniteSet(Snapshot(s))
  BY <1>1, <1>2, FS_Subset
<1>4. /\ \A l \in LinesOf(s) : [k \in DOMAIN lines |-> lines[k].amount][l] \in Int
      /\ \A d \in Snapshot(s) : [k \in DOMAIN documents |-> documents[k].amount][d] \in Int
  <2>1. (\A l \in DOMAIN lines : lines[l].amount \in Int) /\ \A d \in DOMAIN documents : documents[d].amount \in Int
    BY RowsTyped, ReconciliationAssumption DEF LineType, DocumentType
  <2> QED BY <1>1, <2>1
<1> QED BY <1>3, <1>4, NetType DEF BankNet, BookNet

\* Closing changes the session only.
LEMMA CloseKeeps ==
  ASSUME IInv, NEW s \in Sessions, NEW explained \in BOOLEAN, CloseSession(s, explained)
  PROVE  IInv'
<1> DEFINE difference == BankNet(s) - BookNet(s)
           closed == [session EXCEPT ![s].state = "CLOSED"]
<1>1. session \in [Sessions -> SessionType] /\ difference \in Int
  BY Finite DEF IInv, TypeOK
<1>2. /\ session' = [closed EXCEPT ![s].difference = difference] /\ session[s].state = "OPEN"
      /\ UNCHANGED <<documents, lines, matches>>
  BY DEF CloseSession, IsOpen
<1> HIDE DEF difference
<1>3. /\ closed \in [Sessions -> SessionType] /\ \A x \in Sessions \ {s} : closed[x] = session[x]
      /\ closed[s].state = "CLOSED" /\ closed[s].from = session[s].from /\ closed[s].to = session[s].to
  <2>1. \A x \in SessionType :
          LET y == [x EXCEPT !.state = "CLOSED"]
          IN  y \in SessionType /\ y.state = "CLOSED" /\ y.from = x.from /\ y.to = x.to
    BY DEF SessionType
  <2> QED BY <1>1, <2>1
<1> HIDE DEF closed
<1>4. /\ session' \in [Sessions -> SessionType] /\ \A x \in Sessions \ {s} : session'[x] = closed[x]
      /\ session'[s].state = closed[s].state /\ session'[s].from = closed[s].from
      /\ session'[s].to = closed[s].to
  <2>1. \A x \in SessionType :
          LET y == [x EXCEPT !.difference = difference]
          IN  y \in SessionType /\ y.state = x.state /\ y.from = x.from /\ y.to = x.to
    BY <1>1 DEF SessionType
  <2> QED BY <1>2, <1>3, <2>1
<1>5. RowsStand
  BY <1>2, <1>3, <1>4 DEF RowsStand, Stands, IInv, TypeOK
<1> QED BY <1>2, <1>5, UnmatchedKeeps

\* The initial state satisfies the invariant.
LEMMA InitKeeps == Init => IInv
<1> SUFFICES ASSUME Init PROVE IInv
  OBVIOUS
<1>1. /\ documents = <<>> /\ lines = <<>> /\ matches = {}
      /\ session = [s \in Sessions |-> [state |-> "NONE", from |-> 0, to |-> 0, difference |-> 0]]
  BY DEF Init
<1>2. <<>> \in Seq(DocumentType) /\ <<>> \in Seq(LineType)
  BY EmptySeq
<1>3. session \in [Sessions -> SessionType]
  BY <1>1 DEF SessionType
<1>4. TypeOK
  BY <1>1, <1>2, <1>3 DEF TypeOK
<1>5. Paired /\ OneToOne
  BY <1>1 DEF Paired, OneToOne, Approved
<1> QED BY <1>4, <1>5 DEF IInv

\* Every step keeps the invariant.
LEMMA StepKeeps == IInv /\ [Next]_vars => IInv'
<1> SUFFICES ASSUME IInv, [Next]_vars PROVE IInv'
  OBVIOUS
<1>1. CASE Posting
  <2>1. UNCHANGED <<lines, matches>>
    BY <1>1 DEF Posting, Post, Reverse
  <2> QED BY <1>1, <2>1, PostingStands, UnmatchedKeeps
<1>2. ASSUME NEW s \in Sessions, Importing(s) PROVE IInv'
  <2>1. matches' = matches
    <3>1. \A from, to, facts : CommitImport(s, from, to, facts) => matches' = matches
      BY DEF CommitImport
    <3>2. CreateSession(s) => matches' = matches
      BY DEF CreateSession
    <3> QED BY <1>2, <3>1, <3>2 DEF Importing
  <2>2. \A l \in MatchedLines : l \in DOMAIN lines
    BY DEF MatchedLines, Approved, IInv, TypeOK
  <2> QED BY <1>2, <2>1, <2>2, ImportingStands, UnmatchedKeeps
<1>3. ASSUME NEW s \in Sessions, Reconciling(s) PROVE IInv'
  BY <1>3, SuggestingKeeps, ClassifyKeeps, MatchingKeeps, CloseKeeps DEF Reconciling
<1>4. ASSUME NEW m \in matches, ApproveSuggestion(m) \/ ReleaseMatch(m) PROVE IInv'
  BY <1>4, MatchingKeeps
<1>5. CASE UNCHANGED vars
  <2>1. UNCHANGED <<documents, lines, session, matches>>
    BY <1>5 DEF vars
  <2>2. TypeOK' /\ Paired'
    <3>1. TypeOK'
      BY <2>1 DEF IInv, TypeOK
    <3>2. Paired'
      BY <2>1 DEF IInv, Paired, LinesOf, InRange, SameAmount
    <3> QED BY <3>1, <3>2
  <2>3. OneToOne'
    BY <2>1 DEF IInv, OneToOne, Approved, LinesOf, InRange, SameAmount
  <2> QED BY <2>2, <2>3 DEF IInv
<1> QED BY <1>1, <1>2, <1>3, <1>4, <1>5 DEF Next

\* The invariant holds in every reachable state.
LEMMA IInvCorrect == Spec => []IInv
BY InitKeeps, StepKeeps, PTL DEF Spec

-----------------------------------------------------------------------------
(* What a difference consists of.                                          *)

\* The total of two parts.
LEMMA TotalUnion ==
  ASSUME NEW S, NEW T, IsFiniteSet(S), IsFiniteSet(T), S \cap T = {},
         NEW f, \A x \in S \union T : f[x] \in Nat
  PROVE  Total(S \union T, f) = Total(S, f) + Total(T, f)
<1>1. Units(S \union T, f) = Units(S, f) \union Units(T, f)
  BY DEF Units
<1>2. Units(S, f) \cap Units(T, f) = {}
  BY DEF Units
<1>3. /\ IsFiniteSet(Units(S, f)) /\ IsFiniteSet(Units(T, f))
      /\ Cardinality(Units(S, f)) \in Nat /\ Cardinality(Units(T, f)) \in Nat
  BY TotalType DEF Total
<1> DEFINE A == Units(S, f)
           B == Units(T, f)
<1> HIDE DEF A, B
<1>4. IsFiniteSet(A) /\ IsFiniteSet(B) /\ A \cap B = {} /\ Cardinality(A) \in Nat /\ Cardinality(B) \in Nat
  BY <1>2, <1>3 DEF A, B
<1>5. Cardinality(A \cap B) = 0
  BY <1>4, FS_EmptySet
<1>6. Cardinality(A \union B) = Cardinality(A) + Cardinality(B) - Cardinality(A \cap B)
  BY <1>4, FS_Union, Zenon
<1>7. Cardinality(A \union B) = Cardinality(A) + Cardinality(B)
  BY <1>4, <1>5, <1>6
<1> QED BY <1>1, <1>7 DEF Total, A, B

\* The total of as many others of the same amounts.
LEMMA TotalRenamed ==
  ASSUME NEW S, NEW T, IsFiniteSet(S), NEW f, NEW g, NEW h \in Bijection(S, T),
         \A x \in S : f[x] \in Nat /\ f[x] = g[h[x]]
  PROVE  Total(S, f) = Total(T, g)
<1> DEFINE b == [u \in Units(S, f) |-> <<h[u[1]], u[2]>>]
<1>1. /\ h \in [S -> T] /\ (\A x, y \in S : x # y => h[x] # h[y])
      /\ \A t \in T : \E x \in S : h[x] = t
  BY DEF Bijection, Injection, Surjection, IsInjective
<1>2. \A u \in Units(S, f) : u[1] \in S /\ u[2] \in 1 .. f[u[1]] /\ u = <<u[1], u[2]>>
  BY DEF Units
<1>3. b \in [Units(S, f) -> Units(T, g)]
  BY <1>1, <1>2 DEF Units
<1>4. ASSUME NEW u \in Units(S, f), NEW v \in Units(S, f), b[u] = b[v] PROVE u = v
  BY <1>1, <1>2, <1>4
<1>5. ASSUME NEW w \in Units(T, g) PROVE \E u \in Units(S, f) : b[u] = w
  <2>1. PICK t \in T : w \in {t} \X (1 .. g[t])
    BY DEF Units
  <2>2. PICK x \in S : h[x] = t
    BY <1>1
  <2>3. <<x, w[2]>> \in Units(S, f)
    BY <2>1, <2>2 DEF Units
  <2>4. b[<<x, w[2]>>] = w
    BY <2>1, <2>2, <2>3
  <2> QED BY <2>3, <2>4
<1> HIDE DEF b
<1>6. b \in Bijection(Units(S, f), Units(T, g))
  BY <1>3, <1>4, <1>5 DEF Bijection, Injection, Surjection, IsInjective
<1>7. IsFiniteSet(Units(S, f))
  BY TotalType
<1>8. ExistsBijection(Units(S, f), Units(T, g))
  BY <1>6 DEF ExistsBijection
<1> QED BY <1>7, <1>8, FS_Bijection DEF Total

\* The positive and the negative amounts, of which a sum is the difference.
Plus(f, S) == [x \in S |-> IF f[x] > 0 THEN f[x] ELSE 0]
Minus(f, S) == [x \in S |-> IF f[x] < 0 THEN 0 - f[x] ELSE 0]

\* The sum of two parts.
LEMMA NetUnion ==
  ASSUME NEW S, NEW T, IsFiniteSet(S), IsFiniteSet(T), S \cap T = {},
         NEW f, \A x \in S \union T : f[x] \in Int
  PROVE  Net(S \union T, f) = Net(S, f) + Net(T, f)
<1> DEFINE U == S \union T
<1>1. /\ Net(U, f) = Total(U, Plus(f, U)) - Total(U, Minus(f, U))
      /\ Net(S, f) = Total(S, Plus(f, S)) - Total(S, Minus(f, S))
      /\ Net(T, f) = Total(T, Plus(f, T)) - Total(T, Minus(f, T))
  BY DEF Net, Plus, Minus
<1>2. /\ \A x \in U : Plus(f, U)[x] \in Nat /\ Minus(f, U)[x] \in Nat
      /\ \A x \in S : Plus(f, U)[x] = Plus(f, S)[x] /\ Minus(f, U)[x] = Minus(f, S)[x]
      /\ \A x \in T : Plus(f, U)[x] = Plus(f, T)[x] /\ Minus(f, U)[x] = Minus(f, T)[x]
  BY DEF Plus, Minus
<1>3. /\ Total(U, Plus(f, U)) = Total(S, Plus(f, U)) + Total(T, Plus(f, U))
      /\ Total(U, Minus(f, U)) = Total(S, Minus(f, U)) + Total(T, Minus(f, U))
  <2> DEFINE p == Plus(f, U)
             n == Minus(f, U)
  <2>1. (\A x \in S \union T : p[x] \in Nat) /\ \A x \in S \union T : n[x] \in Nat
    BY <1>2
  <2> HIDE DEF p, n
  <2>2. Total(S \union T, p) = Total(S, p) + Total(T, p)
    BY <2>1, TotalUnion
  <2>3. Total(S \union T, n) = Total(S, n) + Total(T, n)
    BY <2>1, TotalUnion
  <2> QED BY <2>2, <2>3 DEF p, n
<1>4. Total(S, Plus(f, U)) = Total(S, Plus(f, S)) /\ Total(S, Minus(f, U)) = Total(S, Minus(f, S))
  BY <1>2, TotalSame
<1>5. Total(T, Plus(f, U)) = Total(T, Plus(f, T)) /\ Total(T, Minus(f, U)) = Total(T, Minus(f, T))
  BY <1>2, TotalSame
<1>6. /\ Total(S, Plus(f, U)) \in Nat /\ Total(S, Minus(f, U)) \in Nat
      /\ Total(T, Plus(f, U)) \in Nat /\ Total(T, Minus(f, U)) \in Nat
  BY <1>2, TotalType
<1> QED BY <1>1, <1>3, <1>4, <1>5, <1>6

\* The sum of as many others of the same amounts.
LEMMA NetRenamed ==
  ASSUME NEW S, NEW T, IsFiniteSet(S), NEW f, NEW g, NEW h \in Bijection(S, T),
         \A x \in S : f[x] \in Int /\ f[x] = g[h[x]]
  PROVE  Net(S, f) = Net(T, g)
<1>1. \A x \in S : h[x] \in T
  BY DEF Bijection, Injection
<1>2. /\ \A x \in S : Plus(f, S)[x] \in Nat /\ Plus(f, S)[x] = Plus(g, T)[h[x]]
      /\ \A x \in S : Minus(f, S)[x] \in Nat /\ Minus(f, S)[x] = Minus(g, T)[h[x]]
  BY <1>1 DEF Plus, Minus
<1>3. Total(S, Plus(f, S)) = Total(T, Plus(g, T))
  BY <1>2, TotalRenamed
<1>4. Total(S, Minus(f, S)) = Total(T, Minus(g, T))
  BY <1>2, TotalRenamed
<1> QED BY <1>3, <1>4 DEF Net, Plus, Minus

\* A session that may be closed differs by what is open in it.
LEMMA DifferenceIs ==
  ASSUME IInv, NEW s \in Sessions, Resolved(s), FactsStand(s)
  PROVE  BankNet(s) - BookNet(s) =
           Net(Classified(s), [l \in DOMAIN lines |-> lines[l].amount])
           - Net(Unmatched(s), [d \in DOMAIN documents |-> documents[d].amount])
<1> DEFINE f == [l \in DOMAIN lines |-> lines[l].amount]
           g == [d \in DOMAIN documents |-> documents[d].amount]
           A == {m \in Approved : m.session = s}
           L == {m.line : m \in A}
           D == {m.document : m \in A}
           h == [l \in L |-> CHOOSE d \in D : \E m \in A : m.line = l /\ m.document = d]
<1>1. /\ \A m \in A : /\ m.line \in LinesOf(s) /\ ~ lines[m.line].classified
                     /\ m.document \in Snapshot(s) /\ SameAmount(m.line, m.document)
      /\ \A m \in A : \A n \in A \ {m} : m.line # n.line /\ m.document # n.document
  BY DEF IInv, OneToOne, FactsStand
<1>2. LinesOf(s) = Classified(s) \union L /\ Classified(s) \cap L = {}
  BY <1>1 DEF Classified, Resolved
<1>3. Snapshot(s) = Unmatched(s) \union D /\ Unmatched(s) \cap D = {}
  <2>1. D \subseteq Snapshot(s)
    BY <1>1
  <2>2. Unmatched(s) = Snapshot(s) \ D
    BY DEF Unmatched
  <2> QED BY <2>1, <2>2
<1>4. h \in Bijection(L, D) /\ \A l \in L : \E m \in A : m.line = l /\ m.document = h[l]
  <2>1. ASSUME NEW m \in A PROVE h[m.line] = m.document
    <3>1. \A n \in A : n.line = m.line => n = m
      BY <1>1
    <3>2. \A d \in D : (\E n \in A : n.line = m.line /\ n.document = d) <=> d = m.document
      BY <3>1
    <3>3. m.document \in D /\ m.line \in L
      OBVIOUS
    <3>4. (CHOOSE d \in D : \E n \in A : n.line = m.line /\ n.document = d) = m.document
      BY <3>2, <3>3
    <3> QED BY <3>3, <3>4
  <2>2. \A l \in L : \E m \in A : l = m.line /\ h[l] = m.document
    BY <2>1
  <2>3. h \in [L -> D]
    BY <2>2
  <2>4. \A k, l \in L : h[k] = h[l] => k = l
    BY <1>1, <2>2
  <2>5. \A d \in D : \E l \in L : h[l] = d
    <3> SUFFICES ASSUME NEW d \in D PROVE \E l \in L : h[l] = d
      OBVIOUS
    <3>1. PICK m \in A : d = m.document
      OBVIOUS
    <3>2. m.line \in L /\ h[m.line] = d
      BY <2>1, <3>1
    <3> QED BY <3>2
  <2> HIDE DEF h, L, D
  <2> QED BY <2>2, <2>3, <2>4, <2>5 DEF Bijection, Injection, Surjection, IsInjective
<1>5. /\ IsFiniteSet(LinesOf(s)) /\ IsFiniteSet(Snapshot(s))
      /\ \A l \in LinesOf(s) : f[l] \in Int
      /\ \A d \in Snapshot(s) : g[d] \in Int
  BY Finite DEF IInv
<1>6. \A l \in L : f[l] = g[h[l]]
  <2>1. \A m \in A : m.line \in DOMAIN lines /\ m.document \in DOMAIN documents
    BY <1>1 DEF LinesOf, Snapshot
  <2>2. \A m \in A : f[m.line] = g[m.document]
    BY <1>1, <2>1 DEF SameAmount
  <2> HIDE DEF h, f, g
  <2> QED BY <1>4, <2>2
<1>7. BankNet(s) = Net(LinesOf(s), f) /\ BookNet(s) = Net(Snapshot(s), g)
  BY DEF BankNet, BookNet
<1> HIDE DEF f, g, L, D, h
<1>8. /\ IsFiniteSet(L) /\ IsFiniteSet(Classified(s)) /\ IsFiniteSet(D) /\ IsFiniteSet(Unmatched(s))
  BY <1>2, <1>3, <1>5, FS_Subset
<1>9. Net(LinesOf(s), f) = Net(Classified(s), f) + Net(L, f)
  BY <1>2, <1>5, <1>8, NetUnion
<1>10. Net(Snapshot(s), g) = Net(Unmatched(s), g) + Net(D, g)
  BY <1>3, <1>5, <1>8, NetUnion
<1>11. Net(L, f) = Net(D, g)
  BY <1>2, <1>4, <1>5, <1>6, <1>8, NetRenamed
<1>12. Net(Classified(s), f) \in Int /\ Net(L, f) \in Int /\ Net(Unmatched(s), g) \in Int
  BY <1>2, <1>3, <1>5, <1>8, NetType
<1> QED BY <1>7, <1>9, <1>10, <1>11, <1>12 DEF f, g

-----------------------------------------------------------------------------
(* What is proved.                                                         *)

(***************************************************************************)
(* The rows keep their types and references, for any number of statements, *)
(* lines, movements and sessions.                                          *)
(***************************************************************************)
THEOREM TypeCorrect == Spec => []TypeOK
<1>1. IInv => TypeOK
  BY DEF IInv
<1> QED BY IInvCorrect, <1>1, PTL

(***************************************************************************)
(* Matching is one to one over all sessions, whatever is suggested,        *)
(* approved, released and classified in any order.                         *)
(***************************************************************************)
THEOREM OneToOneCorrect == Spec => []OneToOne
<1>1. IInv => OneToOne
  BY DEF IInv
<1> QED BY IInvCorrect, <1>1, PTL

(***************************************************************************)
(* The difference of a closed session is what was left open in it: what is *)
(* matched cancels out, for any number of matches.                         *)
(***************************************************************************)
THEOREM DifferenceCorrect == Spec => DifferenceIsWhatIsOpen
<1> DEFINE Closes(s) ==
      session[s].state = "OPEN" /\ session'[s].state = "CLOSED" =>
        session'[s].difference =
          Net(Classified(s), [l \in DOMAIN lines |-> lines[l].amount])
          - Net(Unmatched(s), [d \in DOMAIN documents |-> documents[d].amount])
<1>1. IInv /\ [Next]_vars => [\A s \in Sessions : Closes(s)]_vars
  <2> SUFFICES ASSUME IInv, Next, NEW s \in Sessions,
                      session[s].state = "OPEN", session'[s].state = "CLOSED"
               PROVE  Closes(s)
    OBVIOUS
  <2>1. session \in [Sessions -> SessionType] /\ session[s] \in SessionType
    BY RowsTyped DEF IInv, TypeOK
  <2>2. \E explained \in BOOLEAN : CloseSession(s, explained)
    <3>1. ~ Posting
      BY DEF Posting, Post, Reverse
    <3>2. \A x \in Sessions : ~ CreateSession(x)
      BY <2>1 DEF CreateSession
    <3>3. ASSUME NEW x \in Sessions, NEW from, NEW to, NEW facts, CommitImport(x, from, to, facts)
          PROVE  FALSE
      <4>1. x # s
        BY <3>3 DEF CommitImport
      <4>2. session'[s] = session[s]
        BY <2>1, <3>3, <4>1 DEF CommitImport
      <4> QED BY <4>2
    <3>4. \A x \in Sessions, window \in Windows : ~ GenerateSuggestions(x, window)
      BY DEF GenerateSuggestions
    <3>5. \A x \in Sessions : \A l \in DOMAIN lines, d \in DOMAIN documents :
            ~ ClassifyLine(x, l) /\ ~ ManualMatch(x, l, d)
      BY DEF ClassifyLine, ManualMatch
    <3>6. \A m \in matches : ~ ApproveSuggestion(m) /\ ~ ReleaseMatch(m)
      BY DEF ApproveSuggestion, ReleaseMatch
    <3>7. \A l : \A x \in Sessions : ~ ClassifyLine(x, l)
      BY DEF ClassifyLine
    <3>8. \E x \in Sessions, explained \in BOOLEAN : CloseSession(x, explained)
      BY <3>1, <3>2, <3>3, <3>4, <3>5, <3>6, <3>7 DEF Next, Importing, Reconciling
    <3>9. \A x \in Sessions \ {s}, explained \in BOOLEAN : ~ CloseSession(x, explained)
      BY <2>1 DEF CloseSession
    <3> QED BY <3>8, <3>9
  <2>3. PICK explained \in BOOLEAN : CloseSession(s, explained)
    BY <2>2
  <2>4. Resolved(s) /\ FactsStand(s)
    BY <2>3 DEF CloseSession
  <2>5. session'[s].difference = BankNet(s) - BookNet(s)
    <3> DEFINE difference == BankNet(s) - BookNet(s)
    <3>1. session' = [session EXCEPT ![s].state = "CLOSED", ![s].difference = difference]
      BY <2>3 DEF CloseSession
    <3> HIDE DEF difference
    <3>2. session'[s].difference = difference
      BY <2>1, <3>1 DEF SessionType
    <3> QED BY <3>2 DEF difference
  <2> QED BY <2>4, <2>5, DifferenceIs
<1> QED BY IInvCorrect, <1>1, PTL DEF Spec, DifferenceIsWhatIsOpen

=============================================================================
