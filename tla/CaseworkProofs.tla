---------------------------- MODULE CaseworkProofs ----------------------------
(***************************************************************************)
(* Theorems about a disciplinary case next to its state machine: the desk  *)
(* of its investigation, its follow-ups, its opening and its files, for    *)
(* every number of requests and every size of the tables; and about the    *)
(* conduct his cases add up to.  What holds of any set H of requests is    *)
(* stated of H, so that it serves where some of the requests are not in    *)
(* use (Office).                                                           *)
(***************************************************************************)
EXTENDS CaseIntake, Inquiries, FollowUps, EvidenceFiles, ConductRecord, Counting

\* The requests of H are one.
Lone(H) == \A g, h \in H : g = h

(* Counting.  Requests that passed a check (passed) will each add at most  *)
(* one member to what was counted.                                         *)
Within(n, counted, passed) ==
  /\ IsFiniteSet(counted) /\ IsFiniteSet(passed)
  /\ Cardinality(counted) + Cardinality(passed) <= n

LEMMA WithinMeans ==
  ASSUME NEW n \in Int, NEW S, NEW W, Within(n, S, W)
  PROVE  Cardinality(S) <= n
<1>1. Cardinality(S) \in Nat /\ Cardinality(W) \in Nat
  BY FS_CardinalityType DEF Within
<1> QED BY <1>1 DEF Within

\* Something is taken back.
LEMMA WithinFalls ==
  ASSUME NEW n \in Int, NEW S, NEW W, Within(n, S, W), NEW T, T \subseteq S, NEW V, V \subseteq W
  PROVE  Within(n, T, V)
<1>1. /\ IsFiniteSet(T) /\ Cardinality(T) <= Cardinality(S)
      /\ IsFiniteSet(V) /\ Cardinality(V) <= Cardinality(W)
  BY FS_Subset DEF Within
<1>2. /\ Cardinality(S) \in Nat /\ Cardinality(W) \in Nat
      /\ Cardinality(T) \in Nat /\ Cardinality(V) \in Nat
  BY <1>1, FS_CardinalityType DEF Within
<1> QED BY <1>1, <1>2 DEF Within

\* A request passes the check, which leaves room for every request.
LEMMA WithinStarts ==
  ASSUME NEW H, IsFiniteSet(H), NEW n \in Int, NEW S, IsFiniteSet(S),
         Cardinality(S) + Cardinality(H) <= n, NEW W, W \subseteq H
  PROVE  Within(n, S, W)
<1>1. IsFiniteSet(W) /\ Cardinality(W) <= Cardinality(H)
  BY FS_Subset
<1>2. Cardinality(S) \in Nat /\ Cardinality(H) \in Nat /\ Cardinality(W) \in Nat
  BY <1>1, FS_CardinalityType
<1> QED BY <1>1, <1>2 DEF Within

\* The check asks that there is none.
LEMMA WithinOnce ==
  ASSUME NEW H, IsFiniteSet(H), NEW S, S = {}, NEW W, W \subseteq H
  PROVE  Within(Cardinality(H), S, W)
<1>1. IsFiniteSet(S) /\ Cardinality(S) = 0
  BY FS_EmptySet
<1>2. Cardinality(H) \in Nat
  BY FS_CardinalityType
<1> QED BY <1>1, <1>2, WithinStarts

\* A request that passed it adds its member.
LEMMA WithinMoves ==
  ASSUME NEW n \in Int, NEW S, NEW W, Within(n, S, W), NEW h \in W, NEW x,
         NEW T, T \subseteq S \cup {x}, NEW V, V \subseteq W \ {h}
  PROVE  Within(n, T, V)
<1> DEFINE more == S \cup {x}  left == W \ {h}
<1>1. IsFiniteSet(more) /\ Cardinality(more) <= Cardinality(S) + 1
  <2>1. IsFiniteSet(more) /\ Cardinality(more) = IF x \in S THEN Cardinality(S) ELSE Cardinality(S) + 1
    BY FS_AddElement DEF Within
  <2>2. Cardinality(S) \in Nat
    BY FS_CardinalityType DEF Within
  <2> QED BY <2>1, <2>2
<1>2. IsFiniteSet(left) /\ Cardinality(left) = Cardinality(W) - 1
  BY FS_RemoveElement DEF Within
<1>3. Cardinality(S) \in Nat /\ Cardinality(W) \in Nat
  BY FS_CardinalityType DEF Within
<1> HIDE DEF more, left
<1>4. Cardinality(more) \in Nat /\ Cardinality(left) \in Nat
  BY <1>1, <1>2, FS_CardinalityType
<1>5. Within(n, more, left)
  BY <1>1, <1>2, <1>3, <1>4 DEF Within
<1> QED BY <1>5, WithinFalls DEF more, left

\* A request of W adds its member.
Moved(S, W, T, V) == \E h \in W : V \subseteq W \ {h} /\ \E x : T \subseteq S \cup {x}

LEMMA WithinMoved ==
  ASSUME NEW n \in Int, NEW S, NEW W, Within(n, S, W), NEW T, NEW V, Moved(S, W, T, V)
  PROVE  Within(n, T, V)
<1>1. PICK h \in W : V \subseteq W \ {h} /\ \E x : T \subseteq S \cup {x}
  BY DEF Moved
<1>2. PICK x : T \subseteq S \cup {x}
  BY <1>1
<1> QED BY <1>1, <1>2, WithinMoves

-----------------------------------------------------------------------------
(* The desk of an investigation.                                           *)
Early == {"OBSERVATION", "INFO_REQUEST", "INFO_RESPONSE"}

\* The row answers a question of its kind among the first n.
Answered(list, n, row) ==
  /\ row.to \in 1..n
  /\ list[row.to].type = (IF row.type = "INFO_RESPONSE" THEN "INFO_REQUEST" ELSE "COUNSEL_REQUEST")

\* What a request knows of the case and its history.
InquiryKnows(stage, list, c) ==
  /\ c.phase \in {"open", "write"} => c.entry \in Entry /\ (c.entry.type \in Early => stage # "REPORTED")
  /\ c.phase = "write" /\ c.entry.type \in Answers => Answered(list, Len(list), c.entry)

InquiryRows(stage, list) ==
  /\ \A e \in 1..Len(list) : list[e].type \in Answers => Answered(list, e - 1, list[e])
  /\ \A e \in 1..Len(list) : list[e].type \in Early => stage # "REPORTED"

InquiryInv ==
  /\ caseStage \in Statuses /\ entries \in Seq(Entry) /\ Len(entries) <= MaxEntries
  /\ inquiry \in [Handlers -> Inquiry]
  /\ \A h \in Handlers : InquiryKnows(caseStage, entries, inquiry[h])
  /\ InquiryRows(caseStage, entries)

AnswersIn(list, q) == {e \in 1..Len(list) : list[e].type \in Answers /\ list[e].to = q}
CounselIn(list) ==
  {q \in 1..Len(list) : list[q].type = "COUNSEL_REQUEST" /\ AnswersIn(list, q) = {}}

AboutToAnswer(H, calls, q) ==
  {h \in H : calls[h].phase = "write" /\ calls[h].entry.type \in Answers /\ calls[h].entry.to = q}
AboutToAsk(H, calls) ==
  {h \in H : calls[h].phase = "write" /\ calls[h].entry.type = "COUNSEL_REQUEST"}

\* Whoever is about to answer found no answer, and to ask, no question that is open.
InquiryLimits(H) ==
  /\ \A q \in 1..Len(entries) :
       Within(Cardinality(H), AnswersIn(entries, q), AboutToAnswer(H, inquiry, q))
  /\ Within(Cardinality(H), CounselIn(entries), AboutToAsk(H, inquiry))

LEMMA InquiryTypes ==
  ASSUME NEW row \in Entry
  PROVE  /\ row.type \in {"OBSERVATION", "PRECAUTIONARY_MEASURE"} \cup Questions \cup Answers
         /\ row.type \in Answers => row.to \in 1..MaxEntries
  BY DEF Entry, Questions, Answers

LEMMA NoReturn ==
  ASSUME NEW stage \in Statuses, NEW to \in Statuses, CanTransition("DUE_PROCESS", stage, to)
  PROVE  to # "REPORTED"
  BY DEF Statuses, CanTransition, DueProcessTransitions

LEMMA InquiryInit == InquiriesInit => InquiryInv
<1> SUFFICES ASSUME InquiriesInit PROVE InquiryInv
  OBVIOUS
<1>1. caseStage \in Statuses /\ entries \in Seq(Entry) /\ Len(entries) = 0
  BY DEF InquiriesInit, Statuses
<1>2. NotInquiring \in Inquiry /\ NotInquiring.phase = "idle"
  BY DEF NotInquiring, Inquiry
<1>3. inquiry \in [Handlers -> Inquiry] /\ \A h \in Handlers : inquiry[h].phase = "idle"
  BY <1>2 DEF InquiriesInit
<1>4. InquiryRows(caseStage, entries)
  BY <1>1 DEF InquiryRows
<1>5. \A h \in Handlers : InquiryKnows(caseStage, entries, inquiry[h])
  BY <1>3 DEF InquiryKnows
<1> QED BY <1>1, <1>3, <1>4, <1>5, InquiriesAssumption DEF InquiryInv, InquiriesAssumption

\* A request goes on, and the case stands.
LEMMA InquiryGoesOn ==
  ASSUME InquiryInv, NEW h \in Handlers, NEW c \in Inquiry, InquiryGoes(h, c),
         UNCHANGED inquiryTables, InquiryKnows(caseStage, entries, c)
  PROVE  InquiryInv'
<1>1. /\ inquiry' \in [Handlers -> Inquiry] /\ inquiry'[h] = c
      /\ \A g \in Handlers \ {h} : inquiry'[g] = inquiry[g]
  BY DEF InquiryInv, InquiryGoes
<1>2. \A g \in Handlers : InquiryKnows(caseStage, entries, inquiry'[g])
  BY <1>1 DEF InquiryInv
<1> QED BY <1>1, <1>2 DEF InquiryInv, inquiryTables

\* What ReadEntries finds for the row.
LEMMA EntryFound ==
  ASSUME InquiryInv, NEW row \in Entry, Present(EntryFor(row))
  PROVE  LET found == EntryFor(row) IN
         /\ found \in Entry /\ found.type = row.type
         /\ found.type \in Answers => /\ Answered(entries, Len(entries), found)
                                      /\ AnswersIn(entries, found.to) = {}
         /\ found.type = "COUNSEL_REQUEST" => CounselIn(entries) = {}
<1> DEFINE found == EntryFor(row)
<1>t. /\ row.type \in {"OBSERVATION", "PRECAUTIONARY_MEASURE"} \cup Questions \cup Answers
      /\ Len(entries) \in Nat /\ Len(entries) <= MaxEntries /\ MaxEntries \in Nat
  BY InquiryTypes, InquiriesAssumption DEF InquiryInv, InquiriesAssumption
<1>a. \A q : AnswersTo(q) = AnswersIn(entries, q)
  BY DEF AnswersTo, AnswersIn
<1>b. OpenCounsel = CounselIn(entries)
  BY <1>a DEF OpenCounsel, CounselIn, EntriesOf
<1>1. CASE row.type = "INFO_RESPONSE"
  <2>1. found = IF Unanswered(row.to) THEN row ELSE None
    BY <1>1 DEF EntryFor
  <2>2. found = row /\ Unanswered(row.to)
    BY <2>1 DEF Present
  <2>3. row.to \in EntriesOf("INFO_REQUEST") /\ AnswersTo(row.to) = {}
    BY <2>2 DEF Unanswered
  <2>4. row.to \in 1..Len(entries) /\ entries[row.to].type = "INFO_REQUEST"
    BY <2>3 DEF EntriesOf
  <2> QED BY <1>1, <1>a, <2>2, <2>3, <2>4 DEF Answered
<1>2. CASE row.type = "COUNSEL_REQUEST"
  <2>1. found = IF MayAskCounsel THEN row ELSE None
    BY <1>2 DEF EntryFor
  <2>2. found = row /\ OpenCounsel = {}
    BY <2>1 DEF Present, MayAskCounsel
  <2> QED BY <1>2, <1>b, <2>2 DEF Answers
<1>3. CASE row.type = "COUNSEL_OPINION"
  <2> DEFINE q == CHOOSE q \in OpenCounsel : \A r \in OpenCounsel : q <= r
  <2>1. found = IF OpenCounsel = {} THEN None ELSE [row EXCEPT !.to = q]
    BY <1>3 DEF EntryFor
  <2>2. found = [row EXCEPT !.to = q] /\ OpenCounsel # {}
    BY <2>1 DEF Present
  <2>3. q \in OpenCounsel
    <3>1. OpenCounsel \subseteq 1..Len(entries)
      BY DEF OpenCounsel, EntriesOf
    <3>2. \E x \in OpenCounsel : \A r \in OpenCounsel : x <= r
      BY <2>2, <3>1, <1>t, LeastIn
    <3> QED BY <3>2
  <2> HIDE DEF q
  <2>4. /\ q \in 1..Len(entries) /\ entries[q].type = "COUNSEL_REQUEST" /\ AnswersTo(q) = {}
    BY <2>3 DEF OpenCounsel, EntriesOf
  <2>5. found.to = q /\ found.type = "COUNSEL_OPINION" /\ found \in Entry
    BY <1>3, <1>t, <2>2, <2>4 DEF Entry, Answers, Questions
  <2> QED BY <1>3, <1>a, <2>4, <2>5 DEF Answered
<1>4. CASE row.type \in {"OBSERVATION", "PRECAUTIONARY_MEASURE", "INFO_REQUEST"}
  <2>1. found = row
    BY <1>4 DEF EntryFor
  <2> QED BY <1>4, <2>1 DEF Answers
<1> QED BY <1>t, <1>1, <1>2, <1>3, <1>4 DEF Questions, Answers

LEMMA InquiryStep == InquiryInv /\ [InquiriesNext(Handlers)]_inquiryVars => InquiryInv'
<1> SUFFICES ASSUME InquiryInv, [InquiriesNext(Handlers)]_inquiryVars PROVE InquiryInv'
  OBVIOUS
<1>t. /\ caseStage \in Statuses /\ entries \in Seq(Entry) /\ Len(entries) \in Nat
      /\ inquiry \in [Handlers -> Inquiry] /\ MaxEntries \in Nat
      /\ \A h \in Handlers : InquiryKnows(caseStage, entries, inquiry[h])
      /\ InquiryRows(caseStage, entries)
  BY InquiriesAssumption DEF InquiryInv, InquiriesAssumption
<1>i. NotInquiring \in Inquiry /\ NotInquiring.phase = "idle"
  BY DEF NotInquiring, Inquiry
<1>1. ASSUME NEW h \in Handlers, ReadStage(h) PROVE InquiryInv'
  <2>1. PICK row \in Entry : InStage(row.type) /\ InquiryGoes(h, [phase |-> "open", entry |-> row])
                             /\ UNCHANGED inquiryTables
    BY <1>1 DEF ReadStage
  <2> DEFINE c == [phase |-> "open", entry |-> row]
  <2>2. c \in Inquiry /\ c.phase = "open" /\ c.entry = row
    BY DEF Inquiry
  <2>3. row.type \in Early => caseStage # "REPORTED"
    BY <2>1 DEF InStage, Early
  <2> HIDE DEF c
  <2>4. InquiryKnows(caseStage, entries, c)
    BY <2>2, <2>3 DEF InquiryKnows
  <2>5. InquiryGoes(h, c)
    BY <2>1 DEF c
  <2> QED BY <2>1, <2>2, <2>4, <2>5, InquiryGoesOn
<1>2. ASSUME NEW h \in Handlers, ReadEntries(h) PROVE InquiryInv'
  <2> DEFINE found == EntryFor(inquiry[h].entry)  c == [phase |-> "write", entry |-> found]
  <2>1. /\ inquiry[h].phase = "open" /\ Present(found) /\ InquiryGoes(h, c) /\ UNCHANGED inquiryTables
    BY <1>2 DEF ReadEntries
  <2>2. inquiry[h].entry \in Entry /\ (inquiry[h].entry.type \in Early => caseStage # "REPORTED")
    BY <1>t, <2>1 DEF InquiryKnows
  <2>3. /\ found \in Entry /\ found.type = inquiry[h].entry.type
        /\ found.type \in Answers => Answered(entries, Len(entries), found)
    BY <2>1, <2>2, EntryFound
  <2> HIDE DEF found
  <2>4. c \in Inquiry /\ c.phase = "write" /\ c.entry = found
    BY <2>3 DEF Inquiry
  <2> HIDE DEF c
  <2>5. InquiryKnows(caseStage, entries, c)
    BY <2>2, <2>3, <2>4 DEF InquiryKnows
  <2> QED BY <2>1, <2>4, <2>5, InquiryGoesOn
<1>3. ASSUME NEW h \in Handlers, WriteEntry(h) PROVE InquiryInv'
  <2> DEFINE row == inquiry[h].entry  new == Len(entries) + 1
  <2>1. /\ inquiry[h].phase = "write" /\ Len(entries) < MaxEntries /\ entries' = Append(entries, row)
        /\ inquiry' = [inquiry EXCEPT ![h] = NotInquiring] /\ caseStage' = caseStage
    BY <1>3 DEF WriteEntry, InquiryGoes
  <2>2. /\ row \in Entry /\ (row.type \in Early => caseStage # "REPORTED")
        /\ row.type \in Answers => Answered(entries, Len(entries), row)
    BY <1>t, <2>1 DEF InquiryKnows
  <2> HIDE DEF row
  <2>3. /\ entries' \in Seq(Entry) /\ Len(entries') = new /\ entries'[new] = row
        /\ \A e \in 1..Len(entries) : entries'[e] = entries[e]
    BY <1>t, <2>1, <2>2
  <2>4. ASSUME NEW n \in 0..Len(entries), NEW r, Answered(entries, n, r) PROVE Answered(entries', n, r)
    BY <1>t, <2>3, <2>4 DEF Answered
  <2>5. InquiryRows(caseStage', entries')
    <3>1. ASSUME NEW e \in 1..new
          PROVE  /\ entries'[e].type \in Answers => Answered(entries', e - 1, entries'[e])
                 /\ entries'[e].type \in Early => caseStage # "REPORTED"
      <4>1. CASE e = new
        <5>1. Len(entries) = e - 1 /\ Len(entries) \in 0..Len(entries)
          BY <1>t, <4>1
        <5>2. row.type \in Answers => Answered(entries', e - 1, row)
          BY <2>2, <2>4, <5>1
        <5> QED BY <2>2, <2>3, <4>1, <5>2
      <4>2. CASE e # new
        <5>1. e \in 1..Len(entries) /\ e - 1 \in 0..Len(entries)
          BY <1>t, <4>2
        <5>2. entries[e].type \in Answers => Answered(entries', e - 1, entries[e])
          BY <1>t, <2>4, <5>1 DEF InquiryRows
        <5> QED BY <1>t, <2>3, <5>1, <5>2 DEF InquiryRows
      <4> QED BY <4>1, <4>2
    <3> QED BY <2>1, <2>3, <3>1 DEF InquiryRows
  <2>6. ASSUME NEW g \in Handlers PROVE InquiryKnows(caseStage', entries', inquiry'[g])
    <3>1. CASE g = h
      BY <1>t, <1>i, <2>1, <3>1 DEF InquiryKnows
    <3>2. CASE g # h
      <4>1. inquiry'[g] = inquiry[g] /\ InquiryKnows(caseStage, entries, inquiry[g])
        BY <1>t, <2>1, <3>2
      <4>2. Answered(entries, Len(entries), inquiry[g].entry) => Answered(entries', Len(entries'), inquiry[g].entry)
        BY <1>t, <2>3 DEF Answered
      <4> QED BY <2>1, <4>1, <4>2 DEF InquiryKnows
    <3> QED BY <3>1, <3>2
  <2>7. inquiry' \in [Handlers -> Inquiry]
    BY <1>t, <1>i, <2>1
  <2>8. Len(entries') <= MaxEntries
    BY <1>t, <2>1, <2>3
  <2> QED BY <1>t, <2>1, <2>3, <2>5, <2>6, <2>7, <2>8 DEF InquiryInv
<1>4. ASSUME NEW h \in Handlers, InquiryAborts(h) PROVE InquiryInv'
  <2>1. InquiryGoes(h, NotInquiring) /\ UNCHANGED inquiryTables /\ InquiryKnows(caseStage, entries, NotInquiring)
    BY <1>4, <1>i DEF InquiryAborts, InquiryKnows
  <2> QED BY <1>i, <2>1, InquiryGoesOn
<1>5. CASE CaseMoves
  <2>1. PICK to \in Statuses :
          CanTransition("DUE_PROCESS", caseStage, to) /\ caseStage' = to /\ UNCHANGED <<entries, inquiry>>
    BY <1>5 DEF CaseMoves
  <2>2. to # "REPORTED"
    BY <1>t, <2>1, NoReturn
  <2>3. InquiryRows(caseStage', entries') /\ \A h \in Handlers : InquiryKnows(caseStage', entries', inquiry'[h])
    BY <1>t, <2>1, <2>2 DEF InquiryRows, InquiryKnows
  <2> QED BY <1>t, <2>1, <2>3 DEF InquiryInv
<1>6. CASE UNCHANGED inquiryVars
  BY <1>6 DEF inquiryVars, inquiryTables, InquiryInv
<1> QED BY <1>1, <1>2, <1>3, <1>4, <1>5, <1>6 DEF InquiriesNext

LEMMA InquiryInitLimits ==
  ASSUME NEW H \in SUBSET Handlers, IsFiniteSet(H) PROVE InquiriesInit => InquiryLimits(H)
<1> SUFFICES ASSUME InquiriesInit PROVE InquiryLimits(H)
  OBVIOUS
<1>1. entries = <<>> /\ Len(entries) = 0
  BY DEF InquiriesInit
<1>2. CounselIn(entries) = {} /\ AboutToAsk(H, inquiry) \subseteq H
  BY <1>1 DEF CounselIn, AboutToAsk
<1>3. Within(Cardinality(H), CounselIn(entries), AboutToAsk(H, inquiry))
  BY <1>2, WithinOnce
<1> QED BY <1>1, <1>3 DEF InquiryLimits

\* A step that writes no row, and after which nobody is about to write who was not.
LEMMA InquiryLimitsStand ==
  ASSUME NEW H \in SUBSET Handlers, IsFiniteSet(H), InquiryLimits(H), entries' = entries,
         \A q \in 1..Len(entries) : \/ AnswersIn(entries, q) = {}
                                    \/ AboutToAnswer(H, inquiry', q) \subseteq AboutToAnswer(H, inquiry, q),
         CounselIn(entries) = {} \/ AboutToAsk(H, inquiry') \subseteq AboutToAsk(H, inquiry)
  PROVE  InquiryLimits(H)'
<1>0. Cardinality(H) \in Int
  BY FS_CardinalityType
<1>1. ASSUME NEW q \in 1..Len(entries)
      PROVE  Within(Cardinality(H), AnswersIn(entries, q), AboutToAnswer(H, inquiry', q))
  <2>1. Within(Cardinality(H), AnswersIn(entries, q), AboutToAnswer(H, inquiry, q))
    BY DEF InquiryLimits
  <2>2. AboutToAnswer(H, inquiry', q) \subseteq H
    BY DEF AboutToAnswer
  <2>3. CASE AnswersIn(entries, q) = {}
    BY <2>2, <2>3, WithinOnce
  <2>4. CASE AboutToAnswer(H, inquiry', q) \subseteq AboutToAnswer(H, inquiry, q)
    BY <1>0, <2>1, <2>4, WithinFalls
  <2> QED BY <2>3, <2>4
<1>2. Within(Cardinality(H), CounselIn(entries), AboutToAsk(H, inquiry'))
  <2>1. Within(Cardinality(H), CounselIn(entries), AboutToAsk(H, inquiry))
    BY DEF InquiryLimits
  <2>2. AboutToAsk(H, inquiry') \subseteq H
    BY DEF AboutToAsk
  <2>3. CASE CounselIn(entries) = {}
    BY <2>2, <2>3, WithinOnce
  <2>4. CASE AboutToAsk(H, inquiry') \subseteq AboutToAsk(H, inquiry)
    BY <1>0, <2>1, <2>4, WithinFalls
  <2> QED BY <2>3, <2>4
<1> QED BY <1>1, <1>2 DEF InquiryLimits

\* Nobody starts to write.
LEMMA NobodyWrites ==
  ASSUME NEW H \in SUBSET Handlers, IsFiniteSet(H), InquiryInv, InquiryLimits(H), entries' = entries,
         NEW h \in H, NEW c, inquiry' = [inquiry EXCEPT ![h] = c], c.phase # "write"
  PROVE  InquiryLimits(H)'
<1>1. inquiry'[h] = c /\ \A g \in H \ {h} : inquiry'[g] = inquiry[g]
  BY DEF InquiryInv
<1>2. \A q : AboutToAnswer(H, inquiry', q) \subseteq AboutToAnswer(H, inquiry, q)
  BY <1>1 DEF AboutToAnswer
<1>3. AboutToAsk(H, inquiry') \subseteq AboutToAsk(H, inquiry)
  BY <1>1 DEF AboutToAsk
<1> QED BY <1>2, <1>3, InquiryLimitsStand

LEMMA InquiryStepLimits ==
  ASSUME NEW H \in SUBSET Handlers, IsFiniteSet(H), InquiryInv, InquiryLimits(H),
         [InquiriesNext(H)]_inquiryVars
  PROVE  InquiryLimits(H)'
<1> USE DEF InquiryGoes
<1>0. Cardinality(H) \in Int
  BY FS_CardinalityType
<1>t. /\ entries \in Seq(Entry) /\ Len(entries) \in Nat
      /\ inquiry \in [Handlers -> Inquiry] /\ InquiryRows(caseStage, entries)
      /\ \A h \in Handlers : InquiryKnows(caseStage, entries, inquiry[h])
  BY DEF InquiryInv
<1>i. NotInquiring.phase = "idle"
  BY DEF NotInquiring
<1>1. ASSUME NEW h \in H, ReadStage(h) PROVE InquiryLimits(H)'
  <2>1. PICK row \in Entry : /\ inquiry' = [inquiry EXCEPT ![h] = [phase |-> "open", entry |-> row]]
                             /\ entries' = entries
    BY <1>1 DEF ReadStage, inquiryTables
  <2> DEFINE c == [phase |-> "open", entry |-> row]
  <2>2. c.phase # "write"
    OBVIOUS
  <2> HIDE DEF c
  <2>3. inquiry' = [inquiry EXCEPT ![h] = c]
    BY <2>1 DEF c
  <2> QED BY <2>1, <2>2, <2>3, NobodyWrites
<1>2. ASSUME NEW h \in H, ReadEntries(h) PROVE InquiryLimits(H)'
  <2> DEFINE found == EntryFor(inquiry[h].entry)  c == [phase |-> "write", entry |-> found]
  <2>1. /\ inquiry[h].phase = "open" /\ Present(found) /\ inquiry' = [inquiry EXCEPT ![h] = c]
        /\ entries' = entries
    BY <1>2 DEF ReadEntries, inquiryTables
  <2>2. inquiry[h].entry \in Entry
    BY <1>t, <2>1 DEF InquiryKnows
  <2>3. /\ found.type \in Answers => AnswersIn(entries, found.to) = {}
        /\ found.type = "COUNSEL_REQUEST" => CounselIn(entries) = {}
    BY <2>1, <2>2, EntryFound
  <2> HIDE DEF found
  <2>4. c.entry = found /\ inquiry'[h] = c /\ \A g \in H \ {h} : inquiry'[g] = inquiry[g]
    BY <1>t, <2>1
  <2> HIDE DEF c
  <2>5. ASSUME NEW q
        PROVE  \/ AnswersIn(entries, q) = {}
               \/ AboutToAnswer(H, inquiry', q) \subseteq AboutToAnswer(H, inquiry, q)
    BY <2>3, <2>4 DEF AboutToAnswer
  <2>6. CounselIn(entries) = {} \/ AboutToAsk(H, inquiry') \subseteq AboutToAsk(H, inquiry)
    BY <2>3, <2>4 DEF AboutToAsk
  <2> QED BY <2>1, <2>5, <2>6, InquiryLimitsStand
<1>3. ASSUME NEW h \in H, WriteEntry(h) PROVE InquiryLimits(H)'
  <2> DEFINE row == inquiry[h].entry  new == Len(entries) + 1
  <2>1. /\ inquiry[h].phase = "write" /\ entries' = Append(entries, row)
        /\ inquiry' = [inquiry EXCEPT ![h] = NotInquiring]
    BY <1>3 DEF WriteEntry
  <2>2. row \in Entry /\ (row.type \in Answers => Answered(entries, Len(entries), row))
    BY <1>t, <2>1 DEF InquiryKnows
  <2>3. inquiry'[h].phase = "idle" /\ \A g \in H \ {h} : inquiry'[g] = inquiry[g]
    BY <1>t, <1>i, <2>1
  <2>w. /\ inquiry[h].entry = row
        /\ row.type \in Answers => h \in AboutToAnswer(H, inquiry, row.to)
        /\ row.type = "COUNSEL_REQUEST" => h \in AboutToAsk(H, inquiry)
    BY <2>1 DEF AboutToAnswer, AboutToAsk
  <2> HIDE DEF row, new
  <2>4. /\ Len(entries') = new /\ entries'[new] = row /\ new \notin 1..Len(entries) /\ new \in 1..new
        /\ 1..new = 1..Len(entries) \cup {new}
        /\ \A e \in 1..Len(entries) : entries'[e] = entries[e]
    BY <1>t, <2>1, <2>2 DEF new
  <2>5. ASSUME NEW q
        PROVE  AnswersIn(entries', q) = AnswersIn(entries, q)
                 \cup (IF row.type \in Answers /\ row.to = q THEN {new} ELSE {})
    BY <2>4 DEF AnswersIn
  <2>6. ASSUME NEW q
        PROVE  AboutToAnswer(H, inquiry', q) \subseteq AboutToAnswer(H, inquiry, q) \ {h}
    BY <2>3 DEF AboutToAnswer
  <2>7. AboutToAsk(H, inquiry') \subseteq AboutToAsk(H, inquiry) \ {h}
    BY <2>3 DEF AboutToAsk
  <2>8. AnswersIn(entries', new) = {}
    <3>1. AnswersIn(entries, new) = {}
      BY <1>t DEF AnswersIn, InquiryRows, Answered, new
    <3>2. row.type \in Answers => row.to # new
      BY <1>t, <2>2 DEF Answered, new
    <3> QED BY <2>5, <3>1, <3>2
  <2>9. ASSUME NEW q \in 1..new
        PROVE  Within(Cardinality(H), AnswersIn(entries', q), AboutToAnswer(H, inquiry', q))
    <3>1. CASE q = new
      <4>1. AboutToAnswer(H, inquiry', q) \subseteq H
        BY DEF AboutToAnswer
      <4> QED BY <2>8, <3>1, <4>1, WithinOnce
    <3>2. CASE q # new
      <4>1. Within(Cardinality(H), AnswersIn(entries, q), AboutToAnswer(H, inquiry, q))
        BY <2>4, <3>2 DEF InquiryLimits
      <4>2. CASE row.type \in Answers /\ row.to = q
        <5>1. AnswersIn(entries', q) \subseteq AnswersIn(entries, q) \cup {new}
          BY <2>5
        <5> QED BY <1>0, <2>6, <2>w, <4>1, <4>2, <5>1, WithinMoves
      <4>3. CASE ~(row.type \in Answers /\ row.to = q)
        <5>1. AnswersIn(entries', q) \subseteq AnswersIn(entries, q)
          BY <2>5, <4>3
        <5>2. AboutToAnswer(H, inquiry', q) \subseteq AboutToAnswer(H, inquiry, q)
          BY <2>6
        <5> QED BY <1>0, <4>1, <5>1, <5>2, WithinFalls
      <4> QED BY <4>2, <4>3
    <3> QED BY <3>1, <3>2
  <2>10. Within(Cardinality(H), CounselIn(entries'), AboutToAsk(H, inquiry'))
    <3>1. Within(Cardinality(H), CounselIn(entries), AboutToAsk(H, inquiry))
      BY DEF InquiryLimits
    <3>2. \A q : AnswersIn(entries', q) = {} => AnswersIn(entries, q) = {}
      BY <2>5
    <3>3. CounselIn(entries') \subseteq CounselIn(entries)
                \cup (IF row.type = "COUNSEL_REQUEST" THEN {new} ELSE {})
      BY <2>4, <3>2 DEF CounselIn
    <3>4. CASE row.type = "COUNSEL_REQUEST"
      <4>1. CounselIn(entries') \subseteq CounselIn(entries) \cup {new} /\ h \in AboutToAsk(H, inquiry)
        BY <2>w, <3>3, <3>4
      <4> QED BY <1>0, <2>7, <3>1, <4>1, WithinMoves
    <3>5. CASE row.type # "COUNSEL_REQUEST"
      <4>1. CounselIn(entries') \subseteq CounselIn(entries) /\ AboutToAsk(H, inquiry') \subseteq AboutToAsk(H, inquiry)
        BY <2>7, <3>3, <3>5
      <4> QED BY <1>0, <3>1, <4>1, WithinFalls
    <3> QED BY <3>4, <3>5
  <2> QED BY <2>4, <2>9, <2>10 DEF InquiryLimits
<1>4. ASSUME NEW h \in H, InquiryAborts(h) PROVE InquiryLimits(H)'
  <2>1. inquiry' = [inquiry EXCEPT ![h] = NotInquiring] /\ entries' = entries
    BY <1>4 DEF InquiryAborts, inquiryTables
  <2> QED BY <1>i, <2>1, NobodyWrites
<1>5. CASE CaseMoves \/ UNCHANGED inquiryVars
  BY <1>5 DEF CaseMoves, inquiryVars, inquiryTables, InquiryLimits
<1> QED BY <1>1, <1>2, <1>3, <1>4, <1>5 DEF InquiriesNext

LEMMA InquiryMeans ==
  InquiryInv => InquiriesTypeOK /\ AnswersWhatWasAsked /\ NothingBeforeInvestigation
<1> SUFFICES ASSUME InquiryInv PROVE AnswersWhatWasAsked /\ NothingBeforeInvestigation
  BY DEF InquiryInv, InquiriesTypeOK
<1>1. AnswersWhatWasAsked
  BY DEF InquiryInv, InquiryRows, Answered, AnswersWhatWasAsked
<1>2. NothingBeforeInvestigation
  BY DEF InquiryInv, InquiryRows, Early, NothingBeforeInvestigation, EntriesOf
<1> QED BY <1>1, <1>2

LEMMA InquiryLimitsMean ==
  ASSUME NEW H \in SUBSET Handlers, IsFiniteSet(H), InquiryLimits(H)
  PROVE  AnsweredWithin(Cardinality(H)) /\ OpenCounselWithin(Cardinality(H))
<1>0. Cardinality(H) \in Int
  BY FS_CardinalityType
<1>1. \A q : AnswersTo(q) = AnswersIn(entries, q)
  BY DEF AnswersTo, AnswersIn
<1>2. OpenCounsel = CounselIn(entries)
  BY <1>1 DEF OpenCounsel, CounselIn, EntriesOf
<1>3. \A q \in 1..Len(entries) : Cardinality(AnswersIn(entries, q)) <= Cardinality(H)
  BY <1>0, WithinMeans DEF InquiryLimits
<1>4. Cardinality(CounselIn(entries)) <= Cardinality(H)
  BY <1>0, WithinMeans DEF InquiryLimits
<1> QED BY <1>1, <1>2, <1>3, <1>4 DEF AnsweredWithin, OpenCounselWithin

-----------------------------------------------------------------------------
(* The follow-ups of a case.                                               *)
EventsIn(log, type, i) == {e \in 1..Len(log) : log[e].type = type /\ log[e].item = i}

OutcomesIn(log, i)  == EventsIn(log, "FOLLOW_UP_OUTCOME", i)
RemindersIn(log, i) == EventsIn(log, "FOLLOW_UP_REMINDER", i)

\* What a request knows, when there are n follow-ups.
FollowKnows(n, c) ==
  /\ c.phase = "close" => c.item \in 1..n
  /\ c.phase \in {"reminded", "remind"} => c.found \subseteq 1..n
  /\ c.phase = "remind" => c.found # {}

\* The row tells the last outcome that was logged.
ToldBy(row, log, logged) ==
  \/ logged = {} /\ row.outcome = "PENDING"
  \/ \E e \in logged : /\ \A f \in logged : f <= e
                       /\ row.outcome = log[e].outcome /\ row.outcome \in Outcomes

FollowRows(items, log) ==
  /\ \A e \in 1..Len(log) : log[e].item \in 1..Len(items)
  /\ \A i \in 1..Len(items) : ToldBy(items[i], log, OutcomesIn(log, i))

FollowInv ==
  /\ FollowUpsTypeOK /\ Len(followUps) <= MaxFollowUps
  /\ \A h \in Handlers : FollowKnows(Len(followUps), followCall[h])
  /\ FollowRows(followUps, followLog)

Closing(H, calls, i)   == {h \in H : calls[h].phase = "close" /\ calls[h].item = i}
Reminding(H, calls, i) == {h \in H : calls[h].phase = "remind" /\ i \in calls[h].found}

\* Who is about to close found the follow-up pending; to remind, no reminder.
FollowLimits(H) ==
  \A i \in 1..Len(followUps) :
    /\ Within(Cardinality(H), OutcomesIn(followLog, i), Closing(H, followCall, i))
    /\ Within(Cardinality(H), RemindersIn(followLog, i), Reminding(H, followCall, i))

\* One request at a time, what a pass found pending is pending when it reminds of it.
FollowAlone(H) ==
  /\ \A h \in H : followCall[h].phase \in {"reminded", "remind"} =>
       \A i \in followCall[h].found : OutcomesIn(followLog, i) = {}
  /\ \A i \in 1..Len(followUps) :
       \A r \in RemindersIn(followLog, i), e \in OutcomesIn(followLog, i) : r < e

\* A row is added to the history.
LEMMA LogGrows ==
  ASSUME followLog \in Seq(FollowUpEvent), NEW new \in FollowUpEvent, followLog' = Append(followLog, new)
  PROVE  /\ Len(followLog) \in Nat /\ Len(followLog') = Len(followLog) + 1
         /\ followLog' \in Seq(FollowUpEvent) /\ followLog'[Len(followLog) + 1] = new
         /\ \A e \in 1..Len(followLog) : followLog'[e] = followLog[e]
         /\ \A i : OutcomesIn(followLog', i) = OutcomesIn(followLog, i) \cup
              (IF new.type = "FOLLOW_UP_OUTCOME" /\ new.item = i THEN {Len(followLog) + 1} ELSE {})
         /\ \A i : RemindersIn(followLog', i) = RemindersIn(followLog, i) \cup
              (IF new.type = "FOLLOW_UP_REMINDER" /\ new.item = i THEN {Len(followLog) + 1} ELSE {})
<1> DEFINE last == Len(followLog) + 1
<1>1. /\ Len(followLog') = last /\ followLog' \in Seq(FollowUpEvent) /\ followLog'[last] = new
      /\ Len(followLog) \in Nat /\ \A e \in 1..Len(followLog) : followLog'[e] = followLog[e]
  OBVIOUS
<1>2. 1..last = 1..Len(followLog) \cup {last}
  BY <1>1
<1> HIDE DEF last
<1>3. ASSUME NEW i
      PROVE  OutcomesIn(followLog', i) = OutcomesIn(followLog, i) \cup
               (IF new.type = "FOLLOW_UP_OUTCOME" /\ new.item = i THEN {last} ELSE {})
  BY <1>1, <1>2 DEF EventsIn, OutcomesIn
<1>4. ASSUME NEW i
      PROVE  RemindersIn(followLog', i) = RemindersIn(followLog, i) \cup
               (IF new.type = "FOLLOW_UP_REMINDER" /\ new.item = i THEN {last} ELSE {})
  BY <1>1, <1>2 DEF EventsIn, RemindersIn
<1> QED BY <1>1, <1>3, <1>4 DEF last

LEMMA EventsOfLog ==
  \A i : /\ \A e \in OutcomesIn(followLog, i)  : e \in 1..Len(followLog)
         /\ \A e \in RemindersIn(followLog, i) : e \in 1..Len(followLog)
  BY DEF OutcomesIn, RemindersIn, EventsIn

LEMMA FollowTypes ==
  /\ NotFollowing \in FollowCall /\ NotFollowing.phase = "idle"
  /\ \A n : FollowKnows(n, NotFollowing)
  /\ \A i \in 1..MaxFollowUps :
       /\ [type |-> "FOLLOW_UP", item |-> i] \in FollowUpEvent
       /\ [type |-> "FOLLOW_UP_REMINDER", item |-> i] \in FollowUpEvent
       /\ \A o \in Outcomes : [type |-> "FOLLOW_UP_OUTCOME", item |-> i, outcome |-> o] \in FollowUpEvent
  BY FollowUpsAssumption DEF FollowUpsAssumption, NotFollowing, FollowCall, FollowKnows, FollowUpEvent

LEMMA FollowInit == FollowUpsInit => FollowInv
<1> SUFFICES ASSUME FollowUpsInit PROVE FollowInv
  OBVIOUS
<1>1. /\ reviewDay \in 0..LastReview /\ followUps \in Seq(FollowUp) /\ followLog \in Seq(FollowUpEvent)
      /\ Len(followUps) = 0 /\ Len(followLog) = 0
  BY FollowUpsAssumption DEF FollowUpsInit, FollowUpsAssumption
<1>2. /\ followCall \in [Handlers -> FollowCall]
      /\ \A h \in Handlers : FollowKnows(Len(followUps), followCall[h])
  BY FollowTypes DEF FollowUpsInit
<1>3. FollowRows(followUps, followLog)
  BY <1>1 DEF FollowRows
<1> QED BY <1>1, <1>2, <1>3, FollowUpsAssumption DEF FollowInv, FollowUpsTypeOK, FollowUpsAssumption

\* A request goes on, with no fewer follow-ups.
LEMMA FollowGoesOn ==
  ASSUME FollowInv, NEW h \in Handlers, NEW c \in FollowCall, followCall' = [followCall EXCEPT ![h] = c],
         FollowKnows(Len(followUps'), c), Len(followUps') \in Nat, Len(followUps) <= Len(followUps')
  PROVE  /\ followCall' \in [Handlers -> FollowCall]
         /\ \A g \in Handlers : FollowKnows(Len(followUps'), followCall'[g])
<1>t. followCall \in [Handlers -> FollowCall] /\ Len(followUps) \in Nat
  BY DEF FollowInv, FollowUpsTypeOK
<1>1. /\ followCall' \in [Handlers -> FollowCall] /\ followCall'[h] = c
      /\ \A g \in Handlers \ {h} : followCall'[g] = followCall[g]
  BY <1>t
<1>2. 1..Len(followUps) \subseteq 1..Len(followUps')
  BY <1>t
<1>3. \A g \in Handlers : FollowKnows(Len(followUps'), followCall[g])
  BY <1>2 DEF FollowInv, FollowKnows
<1> QED BY <1>1, <1>3

\* The pass reminds of the first that is due.
LEMMA FirstDue ==
  ASSUME NEW n \in Nat, NEW due \in SUBSET (1..n), due # {}
  PROVE  (CHOOSE i \in due : \A j \in due : i <= j) \in due
<1>1. \E i \in due : \A j \in due : i <= j
  BY LeastIn
<1> QED BY <1>1

LEMMA FollowStep == FollowInv /\ [FollowUpsNext(Handlers)]_followVars => FollowInv'
<1> SUFFICES ASSUME FollowInv, [FollowUpsNext(Handlers)]_followVars PROVE FollowInv'
  OBVIOUS
<1> USE DEF FollowGoes, FollowEnds
<1>t. /\ reviewDay \in 0..LastReview /\ followUps \in Seq(FollowUp) /\ followLog \in Seq(FollowUpEvent)
      /\ Len(followUps) \in Nat /\ Len(followLog) \in Nat /\ Len(followUps) <= MaxFollowUps
      /\ followCall \in [Handlers -> FollowCall] /\ MaxFollowUps \in Nat
      /\ \A h \in Handlers : FollowKnows(Len(followUps), followCall[h])
      /\ FollowRows(followUps, followLog)
      /\ \A i \in 1..Len(followUps) : followUps[i].kind = "COMMITMENT" => Present(followUps[i].review)
  BY FollowUpsAssumption DEF FollowInv, FollowUpsTypeOK, FollowUpsAssumption
<1>q. ASSUME NEW h \in Handlers, NEW c \in FollowCall, followCall' = [followCall EXCEPT ![h] = c],
             FollowKnows(Len(followUps), c), UNCHANGED <<reviewDay, followUps, followLog>>
      PROVE  FollowInv'
  <2>1. /\ followCall' \in [Handlers -> FollowCall]
        /\ \A g \in Handlers : FollowKnows(Len(followUps'), followCall'[g])
    BY <1>q, <1>t, FollowGoesOn
  <2> QED BY <1>q, <1>t, <2>1 DEF FollowInv, FollowUpsTypeOK
<1>1. ASSUME NEW h \in Handlers, CreateFollowUp(h) PROVE FollowInv'
  <2> DEFINE n == Len(followUps) + 1  event == [type |-> "FOLLOW_UP", item |-> n]
  <2>1. PICK row \in FollowUp :
          /\ Len(followUps) < MaxFollowUps /\ row.outcome = "PENDING" /\ ReviewFits(row)
          /\ followUps' = Append(followUps, row) /\ followLog' = Append(followLog, event)
          /\ UNCHANGED <<reviewDay, followCall>>
    BY <1>1 DEF CreateFollowUp
  <2>2. n \in 1..MaxFollowUps
    BY <1>t, <2>1
  <2>3. event \in FollowUpEvent /\ event.type = "FOLLOW_UP" /\ event.item = n
    BY <2>2, FollowTypes
  <2>4. /\ followUps' \in Seq(FollowUp) /\ Len(followUps') = n /\ followUps'[n] = row
        /\ \A i \in 1..Len(followUps) : followUps'[i] = followUps[i]
        /\ 1..n = 1..Len(followUps) \cup {n} /\ n \notin 1..Len(followUps)
    BY <1>t, <2>1
  <2>e. followLog' = Append(followLog, event)
    BY <2>1
  <2> HIDE DEF n, event
  <2>5. /\ followLog' \in Seq(FollowUpEvent) /\ Len(followLog') = Len(followLog) + 1
        /\ followLog'[Len(followLog) + 1] = event
        /\ \A e \in 1..Len(followLog) : followLog'[e] = followLog[e]
        /\ \A i : OutcomesIn(followLog', i) = OutcomesIn(followLog, i)
    BY <1>t, <2>3, <2>e, LogGrows
  <2>6. \A e \in 1..Len(followLog') : followLog'[e].item \in 1..n
    <3> TAKE e \in 1..Len(followLog')
    <3>1. CASE e = Len(followLog) + 1
      BY <2>3, <2>4, <2>5, <3>1
    <3>2. CASE e # Len(followLog) + 1
      <4>1. e \in 1..Len(followLog)
        BY <1>t, <2>5, <3>2
      <4> QED BY <1>t, <2>4, <2>5, <4>1 DEF FollowRows
    <3> QED BY <3>1, <3>2
  <2>7. \A i \in 1..n : ToldBy(followUps'[i], followLog', OutcomesIn(followLog', i))
    <3> TAKE i \in 1..n
    <3>1. CASE i = n
      <4>1. OutcomesIn(followLog, n) = {}
        BY <1>t, <2>4 DEF FollowRows, OutcomesIn, EventsIn
      <4> QED BY <2>1, <2>4, <2>5, <3>1, <4>1 DEF ToldBy
    <3>2. CASE i # n
      <4>1. ToldBy(followUps[i], followLog, OutcomesIn(followLog, i)) /\ followUps'[i] = followUps[i]
        BY <1>t, <2>4, <3>2 DEF FollowRows
      <4>2. \A e \in OutcomesIn(followLog, i) : followLog'[e] = followLog[e]
        BY <2>5 DEF OutcomesIn, EventsIn
      <4> QED BY <2>5, <4>1, <4>2 DEF ToldBy
    <3> QED BY <3>1, <3>2
  <2>8. \A h1 \in Handlers : FollowKnows(n, followCall'[h1])
    <3>1. 1..Len(followUps) \subseteq 1..n
      BY <2>4
    <3> QED BY <1>t, <2>1, <3>1 DEF FollowKnows
  <2>9. \A i \in 1..n : followUps'[i].kind = "COMMITMENT" => Present(followUps'[i].review)
    <3>1. row.kind = "COMMITMENT" => Present(row.review)
      BY <2>1 DEF ReviewFits
    <3> QED BY <1>t, <2>4, <3>1
  <2>10. n <= MaxFollowUps
    BY <2>2
  <2> QED BY <1>t, <2>1, <2>4, <2>5, <2>6, <2>7, <2>8, <2>9, <2>10 DEF FollowInv, FollowUpsTypeOK, FollowRows
<1>2. ASSUME NEW h \in Handlers, FindCommitment(h) PROVE FollowInv'
  <2>1. PICK i \in 1..Len(followUps) :
          /\ followCall' = [followCall EXCEPT ![h] = [NotFollowing EXCEPT !.phase = "close", !.item = i]]
          /\ UNCHANGED <<reviewDay, followUps, followLog>>
    BY <1>2 DEF FindCommitment, followTables
  <2> DEFINE c == [NotFollowing EXCEPT !.phase = "close", !.item = i]
  <2>0. i \in 0..MaxFollowUps
    BY <1>t
  <2>2. c \in FollowCall /\ c.phase = "close" /\ c.item = i
    BY <2>0, FollowTypes DEF FollowCall
  <2> HIDE DEF c
  <2>3. followCall' = [followCall EXCEPT ![h] = c] /\ FollowKnows(Len(followUps), c)
    BY <2>1, <2>2 DEF c, FollowKnows
  <2> QED BY <1>q, <2>1, <2>2, <2>3
<1>3. ASSUME NEW h \in Handlers, CloseFollowUp(h) PROVE FollowInv'
  <2> DEFINE i == followCall[h].item
  <2>1. PICK outcome \in Outcomes :
          /\ followCall[h].phase = "close" /\ followUps' = [followUps EXCEPT ![i].outcome = outcome]
          /\ followLog' = Append(followLog, [type |-> "FOLLOW_UP_OUTCOME", item |-> i, outcome |-> outcome])
          /\ followCall' = [followCall EXCEPT ![h] = NotFollowing] /\ reviewDay' = reviewDay
    BY <1>3 DEF CloseFollowUp
  <2>2. i \in 1..Len(followUps) /\ i \in 1..MaxFollowUps
    BY <1>t, <2>1 DEF FollowKnows
  <2> HIDE DEF i
  <2> DEFINE event == [type |-> "FOLLOW_UP_OUTCOME", item |-> i, outcome |-> outcome]
             last == Len(followLog) + 1
  <2>3. /\ event \in FollowUpEvent /\ event.type = "FOLLOW_UP_OUTCOME" /\ event.item = i
        /\ event.outcome = outcome
    BY <2>2, FollowTypes
  <2>4. /\ Len(followUps') = Len(followUps) /\ followUps' \in Seq(FollowUp)
        /\ followUps'[i] = [followUps[i] EXCEPT !.outcome = outcome]
        /\ \A j \in 1..Len(followUps) \ {i} : followUps'[j] = followUps[j]
    <3>0. followUps[i] \in FollowUp
      BY <1>t, <2>2
    <3>1. [followUps[i] EXCEPT !.outcome = outcome] \in FollowUp
      BY <3>0 DEF FollowUp
    <3> QED BY <1>t, <2>1, <2>2, <3>1
  <2>5. followUps'[i].outcome = outcome /\ followUps'[i].kind = followUps[i].kind
        /\ followUps'[i].review = followUps[i].review
    BY <1>t, <2>2, <2>4 DEF FollowUp
  <2>e. followLog' = Append(followLog, event)
    BY <2>1
  <2> HIDE DEF event
  <2>6. /\ followLog' \in Seq(FollowUpEvent) /\ Len(followLog') = last /\ followLog'[last] = event
        /\ \A e \in 1..Len(followLog) : followLog'[e] = followLog[e]
        /\ OutcomesIn(followLog', i) = OutcomesIn(followLog, i) \cup {last}
        /\ \A j : j # i => OutcomesIn(followLog', j) = OutcomesIn(followLog, j)
        /\ \A j : \A e \in OutcomesIn(followLog, j) : e \in 1..Len(followLog)
    <3>1. /\ followLog' \in Seq(FollowUpEvent) /\ Len(followLog') = Len(followLog) + 1
          /\ followLog'[Len(followLog) + 1] = event /\ \A e \in 1..Len(followLog) : followLog'[e] = followLog[e]
          /\ \A j : OutcomesIn(followLog', j) = OutcomesIn(followLog, j) \cup
              (IF event.type = "FOLLOW_UP_OUTCOME" /\ event.item = j THEN {Len(followLog) + 1} ELSE {})
      BY <1>t, <2>3, <2>e, LogGrows
    <3>2. /\ OutcomesIn(followLog', i) = OutcomesIn(followLog, i) \cup {Len(followLog) + 1}
          /\ \A j : j # i => OutcomesIn(followLog', j) = OutcomesIn(followLog, j)
      BY <2>3, <3>1
    <3> QED BY <3>1, <3>2, EventsOfLog
  <2>7. \A e \in 1..Len(followLog') : followLog'[e].item \in 1..Len(followUps')
    <3> TAKE e \in 1..Len(followLog')
    <3>1. CASE e = last
      BY <2>2, <2>3, <2>4, <2>6, <3>1
    <3>2. CASE e # last
      <4>1. e \in 1..Len(followLog)
        BY <1>t, <2>6, <3>2
      <4> QED BY <1>t, <2>4, <2>6, <4>1 DEF FollowRows
    <3> QED BY <3>1, <3>2
  <2>8. \A j \in 1..Len(followUps') : ToldBy(followUps'[j], followLog', OutcomesIn(followLog', j))
    <3> TAKE j \in 1..Len(followUps')
    <3>1. CASE j = i
      <4>1. \A f \in OutcomesIn(followLog', i) : f <= last
        BY <1>t, <2>6
      <4>2. last \in OutcomesIn(followLog', i) /\ followUps'[i].outcome = followLog'[last].outcome
        BY <2>3, <2>5, <2>6
      <4>3. followUps'[i].outcome \in Outcomes
        BY <2>5
      <4> HIDE DEF last
      <4> QED BY <3>1, <4>1, <4>2, <4>3 DEF ToldBy
    <3>2. CASE j # i
      <4>1. ToldBy(followUps[j], followLog, OutcomesIn(followLog, j)) /\ followUps'[j] = followUps[j]
        BY <1>t, <2>4, <3>2 DEF FollowRows
      <4>2. \A e \in OutcomesIn(followLog, j) : followLog'[e] = followLog[e]
        BY <2>6
      <4>3. OutcomesIn(followLog', j) = OutcomesIn(followLog, j)
        BY <2>6, <3>2
      <4> QED BY <4>1, <4>2, <4>3 DEF ToldBy
    <3> QED BY <3>1, <3>2
  <2>9. /\ followCall' \in [Handlers -> FollowCall]
        /\ \A g \in Handlers : FollowKnows(Len(followUps'), followCall'[g])
    BY <1>t, <2>1, <2>4, FollowTypes, FollowGoesOn
  <2>10. \A j \in 1..Len(followUps') : followUps'[j].kind = "COMMITMENT" => Present(followUps'[j].review)
    BY <1>t, <2>2, <2>4, <2>5
  <2> QED BY <1>t, <2>1, <2>4, <2>6, <2>7, <2>8, <2>9, <2>10 DEF FollowInv, FollowUpsTypeOK, FollowRows
<1>4. ASSUME NEW h \in Handlers, FindCandidates(h) PROVE FollowInv'
  <2> DEFINE found == {i \in 1..Len(followUps) : Candidate(followUps[i])}
             c == [NotFollowing EXCEPT !.phase = "reminded", !.found = found]
  <2>1. followCall' = [followCall EXCEPT ![h] = c] /\ UNCHANGED <<reviewDay, followUps, followLog>>
    BY <1>4 DEF FindCandidates, followTables
  <2>2. found \subseteq 1..Len(followUps) /\ found \subseteq 1..MaxFollowUps
    BY <1>t
  <2> HIDE DEF found
  <2>3. c \in FollowCall /\ c.phase = "reminded" /\ c.found = found
    BY <2>2, FollowTypes DEF FollowCall
  <2> HIDE DEF c
  <2>4. FollowKnows(Len(followUps), c)
    BY <2>2, <2>3 DEF FollowKnows
  <2> QED BY <1>q, <2>1, <2>3, <2>4
<1>5. ASSUME NEW h \in Handlers, FindReminded(h) PROVE FollowInv'
  <2> DEFINE due == PendingReminders(followCall[h].found, followUps)
             c == [NotFollowing EXCEPT !.phase = IF due = {} THEN "idle" ELSE "remind", !.found = due]
  <2>1. /\ followCall[h].phase = "reminded" /\ followCall' = [followCall EXCEPT ![h] = c]
        /\ UNCHANGED <<reviewDay, followUps, followLog>>
    BY <1>5 DEF FindReminded, followTables
  <2>2. due \subseteq 1..Len(followUps) /\ due \subseteq 1..MaxFollowUps
    BY <1>t, <2>1 DEF PendingReminders, FollowKnows
  <2> HIDE DEF due
  <2>3. /\ c \in FollowCall /\ c.phase = (IF due = {} THEN "idle" ELSE "remind") /\ c.found = due
    BY <2>2, FollowTypes DEF FollowCall
  <2> HIDE DEF c
  <2>4. FollowKnows(Len(followUps), c)
    BY <2>2, <2>3 DEF FollowKnows
  <2> QED BY <1>q, <2>1, <2>3, <2>4
<1>6. ASSUME NEW h \in Handlers, Remind(h) PROVE FollowInv'
  <2> DEFINE due == followCall[h].found  i == CHOOSE i \in due : \A j \in due : i <= j  left == due \ {i}
             c == [NotFollowing EXCEPT !.phase = IF left = {} THEN "idle" ELSE "remind", !.found = left]
             event == [type |-> "FOLLOW_UP_REMINDER", item |-> i]
  <2>1. /\ followCall[h].phase = "remind" /\ followLog' = Append(followLog, event)
        /\ followCall' = [followCall EXCEPT ![h] = c] /\ UNCHANGED <<reviewDay, followUps>>
    BY <1>6 DEF Remind
  <2>2. due \subseteq 1..Len(followUps) /\ due # {}
    BY <1>t, <2>1 DEF FollowKnows
  <2>3. i \in due
    BY <1>t, <2>2, FirstDue
  <2>l. left \subseteq due
    OBVIOUS
  <2> HIDE DEF due, i
  <2>4. i \in 1..Len(followUps) /\ i \in 1..MaxFollowUps
    BY <1>t, <2>2, <2>3
  <2>5. event \in FollowUpEvent /\ event.type = "FOLLOW_UP_REMINDER" /\ event.item = i
    BY <2>4, FollowTypes
  <2> HIDE DEF event
  <2>6. left \subseteq 1..Len(followUps) /\ left \subseteq 1..MaxFollowUps
    <3>1. 1..Len(followUps) \subseteq 1..MaxFollowUps
      BY <1>t
    <3> HIDE DEF left
    <3> QED BY <2>2, <2>l, <3>1
  <2> HIDE DEF left
  <2>7. c \in FollowCall /\ c.phase = (IF left = {} THEN "idle" ELSE "remind") /\ c.found = left
    BY <2>6, FollowTypes DEF FollowCall
  <2> HIDE DEF c
  <2>8. FollowKnows(Len(followUps), c)
    BY <2>6, <2>7 DEF FollowKnows
  <2>9. /\ followLog' \in Seq(FollowUpEvent) /\ Len(followLog') = Len(followLog) + 1
        /\ followLog'[Len(followLog) + 1] = event
        /\ \A e \in 1..Len(followLog) : followLog'[e] = followLog[e]
        /\ \A j : OutcomesIn(followLog', j) = OutcomesIn(followLog, j)
        /\ \A j : \A e \in OutcomesIn(followLog, j) : e \in 1..Len(followLog)
    <3>1. /\ followLog' \in Seq(FollowUpEvent) /\ Len(followLog') = Len(followLog) + 1
          /\ followLog'[Len(followLog) + 1] = event /\ \A e \in 1..Len(followLog) : followLog'[e] = followLog[e]
          /\ \A j : OutcomesIn(followLog', j) = OutcomesIn(followLog, j) \cup
              (IF event.type = "FOLLOW_UP_OUTCOME" /\ event.item = j THEN {Len(followLog) + 1} ELSE {})
      BY <1>t, <2>1, <2>5, LogGrows
    <3>2. \A j : OutcomesIn(followLog', j) = OutcomesIn(followLog, j)
      BY <2>5, <3>1
    <3> QED BY <3>1, <3>2, EventsOfLog
  <2>10. \A e \in 1..Len(followLog') : followLog'[e].item \in 1..Len(followUps')
    <3> TAKE e \in 1..Len(followLog')
    <3>1. CASE e = Len(followLog) + 1
      BY <2>1, <2>4, <2>5, <2>9, <3>1
    <3>2. CASE e # Len(followLog) + 1
      <4>1. e \in 1..Len(followLog)
        BY <1>t, <2>9, <3>2
      <4> QED BY <1>t, <2>1, <2>9, <4>1 DEF FollowRows
    <3> QED BY <3>1, <3>2
  <2>11. \A j \in 1..Len(followUps') : ToldBy(followUps'[j], followLog', OutcomesIn(followLog', j))
    <3> TAKE j \in 1..Len(followUps')
    <3>1. ToldBy(followUps[j], followLog, OutcomesIn(followLog, j))
      BY <1>t, <2>1 DEF FollowRows
    <3>2. \A e \in OutcomesIn(followLog, j) : followLog'[e] = followLog[e]
      BY <2>9
    <3>3. OutcomesIn(followLog', j) = OutcomesIn(followLog, j) /\ followUps'[j] = followUps[j]
      BY <2>1, <2>9
    <3> QED BY <3>1, <3>2, <3>3 DEF ToldBy
  <2>12. /\ followCall' \in [Handlers -> FollowCall]
         /\ \A g \in Handlers : FollowKnows(Len(followUps'), followCall'[g])
    BY <1>t, <2>1, <2>7, <2>8, FollowGoesOn
  <2> QED BY <1>t, <2>1, <2>9, <2>10, <2>11, <2>12 DEF FollowInv, FollowUpsTypeOK, FollowRows
<1>7. ASSUME NEW h \in Handlers, FollowAborts(h) PROVE FollowInv'
  BY <1>7, <1>q, FollowTypes DEF FollowAborts, followTables
<1>8. CASE ReviewDayPasses
  <2>1. reviewDay' \in 0..LastReview /\ UNCHANGED <<followUps, followLog, followCall>>
    BY <1>8, <1>t, FollowUpsAssumption DEF ReviewDayPasses, followTables, FollowUpsAssumption
  <2> QED BY <1>t, <2>1 DEF FollowInv, FollowUpsTypeOK
<1>9. CASE UNCHANGED followVars
  BY <1>9 DEF followVars, followTables, FollowInv, FollowUpsTypeOK
<1> QED BY <1>1, <1>2, <1>3, <1>4, <1>5, <1>6, <1>7, <1>8, <1>9 DEF FollowUpsNext

LEMMA FollowInvMeans == FollowInv => FollowUpsTypeOK
  BY DEF FollowInv

-----------------------------------------------------------------------------
(* How many reminders and outcomes.                                        *)
LEMMA FollowInitLimits ==
  ASSUME NEW H \in SUBSET Handlers PROVE FollowUpsInit => FollowLimits(H) /\ FollowAlone(H)
<1> SUFFICES ASSUME FollowUpsInit PROVE FollowLimits(H) /\ FollowAlone(H)
  OBVIOUS
<1>1. Len(followUps) = 0
  BY DEF FollowUpsInit
<1>2. \A h \in H : followCall[h].phase = "idle"
  BY DEF FollowUpsInit, NotFollowing
<1> QED BY <1>1, <1>2 DEF FollowLimits, FollowAlone

\* A step that writes no row, and after which nobody is about to who was not.
LEMMA FollowLimitsStand ==
  ASSUME NEW H \in SUBSET Handlers, IsFiniteSet(H), FollowLimits(H),
         followLog' = followLog, followUps' = followUps,
         \A i \in 1..Len(followUps) :
           /\ \/ OutcomesIn(followLog, i) = {}
              \/ Closing(H, followCall', i) \subseteq Closing(H, followCall, i)
           /\ \/ RemindersIn(followLog, i) = {}
              \/ Reminding(H, followCall', i) \subseteq Reminding(H, followCall, i)
  PROVE  FollowLimits(H)'
<1>0. Cardinality(H) \in Int
  BY FS_CardinalityType
<1>1. ASSUME NEW i \in 1..Len(followUps)
      PROVE  Within(Cardinality(H), OutcomesIn(followLog, i), Closing(H, followCall', i))
  <2>1. Within(Cardinality(H), OutcomesIn(followLog, i), Closing(H, followCall, i))
    BY DEF FollowLimits
  <2>2. Closing(H, followCall', i) \subseteq H
    BY DEF Closing
  <2>3. CASE OutcomesIn(followLog, i) = {}
    BY <2>2, <2>3, WithinOnce
  <2>4. CASE Closing(H, followCall', i) \subseteq Closing(H, followCall, i)
    BY <1>0, <2>1, <2>4, WithinFalls
  <2> QED BY <2>3, <2>4
<1>2. ASSUME NEW i \in 1..Len(followUps)
      PROVE  Within(Cardinality(H), RemindersIn(followLog, i), Reminding(H, followCall', i))
  <2>1. Within(Cardinality(H), RemindersIn(followLog, i), Reminding(H, followCall, i))
    BY DEF FollowLimits
  <2>2. Reminding(H, followCall', i) \subseteq H
    BY DEF Reminding
  <2>3. CASE RemindersIn(followLog, i) = {}
    BY <2>2, <2>3, WithinOnce
  <2>4. CASE Reminding(H, followCall', i) \subseteq Reminding(H, followCall, i)
    BY <1>0, <2>1, <2>4, WithinFalls
  <2> QED BY <2>3, <2>4
<1> QED BY <1>1, <1>2 DEF FollowLimits

\* What is pending has no outcome in the history.
LEMMA PendingHasNone ==
  ASSUME FollowInv, NEW i \in 1..Len(followUps), followUps[i].outcome = "PENDING"
  PROVE  OutcomesIn(followLog, i) = {}
  BY DEF FollowInv, FollowRows, ToldBy, Outcomes

LEMMA FollowStepLimits ==
  ASSUME NEW H \in SUBSET Handlers, IsFiniteSet(H), FollowInv, FollowLimits(H),
         [FollowUpsNext(H)]_followVars
  PROVE  FollowLimits(H)'
<1> USE DEF FollowGoes, FollowEnds
<1>0. Cardinality(H) \in Int
  BY FS_CardinalityType
<1>t. /\ followUps \in Seq(FollowUp) /\ followLog \in Seq(FollowUpEvent)
      /\ Len(followUps) \in Nat /\ Len(followLog) \in Nat /\ Len(followUps) <= MaxFollowUps
      /\ followCall \in [Handlers -> FollowCall] /\ MaxFollowUps \in Nat
      /\ \A h \in Handlers : FollowKnows(Len(followUps), followCall[h])
      /\ FollowRows(followUps, followLog)
  BY FollowUpsAssumption DEF FollowInv, FollowUpsTypeOK, FollowUpsAssumption
<1>i. NotFollowing.phase = "idle"
  BY FollowTypes
<1>c. ASSUME NEW h \in H, NEW c, followCall' = [followCall EXCEPT ![h] = c]
      PROVE  /\ followCall'[h] = c /\ \A g \in H \ {h} : followCall'[g] = followCall[g]
             /\ c.phase # "close" =>
                  \A i : Closing(H, followCall', i) \subseteq Closing(H, followCall, i) \ {h}
             /\ c.phase # "remind" =>
                  \A i : Reminding(H, followCall', i) \subseteq Reminding(H, followCall, i) \ {h}
  <2>1. followCall'[h] = c /\ \A g \in H \ {h} : followCall'[g] = followCall[g]
    BY <1>c, <1>t
  <2> QED BY <2>1 DEF Closing, Reminding
<1>1. ASSUME NEW h \in H, CreateFollowUp(h) PROVE FollowLimits(H)'
  <2> DEFINE n == Len(followUps) + 1  event == [type |-> "FOLLOW_UP", item |-> n]
  <2>1. PICK row \in FollowUp :
          /\ Len(followUps) < MaxFollowUps /\ followUps' = Append(followUps, row)
          /\ followLog' = Append(followLog, event) /\ followCall' = followCall
    BY <1>1 DEF CreateFollowUp
  <2>2. n \in 1..MaxFollowUps /\ Len(followUps') = n /\ 1..n = 1..Len(followUps) \cup {n}
        /\ n \notin 1..Len(followUps)
    BY <1>t, <2>1
  <2>3. event \in FollowUpEvent /\ event.type = "FOLLOW_UP"
    BY <2>2, FollowTypes
  <2>e. followLog' = Append(followLog, event)
    BY <2>1
  <2> HIDE DEF n, event
  <2>4. /\ \A i : OutcomesIn(followLog', i) = OutcomesIn(followLog, i)
        /\ \A i : RemindersIn(followLog', i) = RemindersIn(followLog, i)
    <3>1. /\ \A j : OutcomesIn(followLog', j) = OutcomesIn(followLog, j) \cup
              (IF event.type = "FOLLOW_UP_OUTCOME" /\ event.item = j THEN {Len(followLog) + 1} ELSE {})
          /\ \A j : RemindersIn(followLog', j) = RemindersIn(followLog, j) \cup
              (IF event.type = "FOLLOW_UP_REMINDER" /\ event.item = j THEN {Len(followLog) + 1} ELSE {})
      BY <1>t, <2>3, <2>e, LogGrows
    <3> QED BY <2>3, <3>1
  <2>5. OutcomesIn(followLog, n) = {} /\ RemindersIn(followLog, n) = {}
    BY <1>t, <2>2 DEF FollowRows, OutcomesIn, RemindersIn, EventsIn
  <2>6. Closing(H, followCall, n) \subseteq H /\ Reminding(H, followCall, n) \subseteq H
    BY DEF Closing, Reminding
  <2>7. /\ Within(Cardinality(H), OutcomesIn(followLog, n), Closing(H, followCall, n))
        /\ Within(Cardinality(H), RemindersIn(followLog, n), Reminding(H, followCall, n))
    BY <2>5, <2>6, WithinOnce
  <2> QED BY <2>1, <2>2, <2>4, <2>7 DEF FollowLimits
<1>2. ASSUME NEW h \in H, FindCommitment(h) PROVE FollowLimits(H)'
  <2>1. PICK i \in 1..Len(followUps) :
          /\ followCall' = [followCall EXCEPT ![h] = [NotFollowing EXCEPT !.phase = "close", !.item = i]]
          /\ UNCHANGED <<followUps, followLog>> /\ followUps[i].outcome = "PENDING"
    BY <1>2 DEF FindCommitment, followTables, Closable
  <2> DEFINE c == [NotFollowing EXCEPT !.phase = "close", !.item = i]
  <2>2. c.phase = "close" /\ c.item = i
    BY DEF NotFollowing
  <2>e. followCall' = [followCall EXCEPT ![h] = c]
    BY <2>1
  <2> HIDE DEF c
  <2>3. /\ followCall'[h] = c /\ \A g \in H \ {h} : followCall'[g] = followCall[g]
        /\ \A j : Reminding(H, followCall', j) \subseteq Reminding(H, followCall, j)
    BY <1>c, <2>2, <2>e
  <2>4. OutcomesIn(followLog, i) = {}
    BY <2>1, PendingHasNone
  <2>5. \A j : j # i => Closing(H, followCall', j) \subseteq Closing(H, followCall, j)
    BY <2>2, <2>3 DEF Closing
  <2> QED BY <2>1, <2>3, <2>4, <2>5, FollowLimitsStand
<1>3. ASSUME NEW h \in H, CloseFollowUp(h) PROVE FollowLimits(H)'
  <2> DEFINE i == followCall[h].item  last == Len(followLog) + 1
  <2>1. PICK outcome \in Outcomes :
          /\ followCall[h].phase = "close" /\ followUps' = [followUps EXCEPT ![i].outcome = outcome]
          /\ followLog' = Append(followLog, [type |-> "FOLLOW_UP_OUTCOME", item |-> i, outcome |-> outcome])
          /\ followCall' = [followCall EXCEPT ![h] = NotFollowing]
    BY <1>3 DEF CloseFollowUp
  <2>2. i \in 1..Len(followUps) /\ i \in 1..MaxFollowUps
    BY <1>t, <2>1 DEF FollowKnows
  <2>w. h \in Closing(H, followCall, i)
    BY <2>1 DEF Closing
  <2> HIDE DEF i
  <2> DEFINE event == [type |-> "FOLLOW_UP_OUTCOME", item |-> i, outcome |-> outcome]
  <2>3. event \in FollowUpEvent /\ event.type = "FOLLOW_UP_OUTCOME" /\ event.item = i
    BY <2>2, FollowTypes
  <2>e. followLog' = Append(followLog, event)
    BY <2>1
  <2> HIDE DEF event
  <2>4. /\ \A j : OutcomesIn(followLog', j) = OutcomesIn(followLog, j)
                    \cup (IF i = j THEN {last} ELSE {})
        /\ \A j : RemindersIn(followLog', j) = RemindersIn(followLog, j)
    BY <1>t, <2>3, <2>e, LogGrows
  <2>5. Len(followUps') = Len(followUps)
    BY <1>t, <2>1
  <2>6. /\ \A j : Closing(H, followCall', j) \subseteq Closing(H, followCall, j) \ {h}
        /\ \A j : Reminding(H, followCall', j) \subseteq Reminding(H, followCall, j)
    BY <1>c, <1>i, <2>1
  <2> HIDE DEF last
  <2>7. ASSUME NEW j \in 1..Len(followUps)
        PROVE  Within(Cardinality(H), OutcomesIn(followLog', j), Closing(H, followCall', j))
    <3>1. Within(Cardinality(H), OutcomesIn(followLog, j), Closing(H, followCall, j))
      BY DEF FollowLimits
    <3>2. CASE i = j
      <4>1. OutcomesIn(followLog', j) \subseteq OutcomesIn(followLog, j) \cup {last}
        BY <2>4
      <4>2. Closing(H, followCall', j) \subseteq Closing(H, followCall, j) \ {h}
        BY <2>6
      <4>3. h \in Closing(H, followCall, j)
        BY <2>w, <3>2
      <4> QED BY <1>0, <3>1, <4>1, <4>2, <4>3, WithinMoves
    <3>3. CASE i # j
      <4>1. OutcomesIn(followLog', j) \subseteq OutcomesIn(followLog, j)
        BY <2>4, <3>3
      <4>2. Closing(H, followCall', j) \subseteq Closing(H, followCall, j)
        BY <2>6
      <4> QED BY <1>0, <3>1, <4>1, <4>2, WithinFalls
    <3> QED BY <3>2, <3>3
  <2>8. ASSUME NEW j \in 1..Len(followUps)
        PROVE  Within(Cardinality(H), RemindersIn(followLog', j), Reminding(H, followCall', j))
    <3>1. Within(Cardinality(H), RemindersIn(followLog, j), Reminding(H, followCall, j))
      BY DEF FollowLimits
    <3> QED BY <1>0, <2>4, <2>6, <3>1, WithinFalls
  <2> QED BY <2>5, <2>7, <2>8 DEF FollowLimits
<1>4. ASSUME NEW h \in H, FindCandidates(h) PROVE FollowLimits(H)'
  <2> DEFINE found == {i \in 1..Len(followUps) : Candidate(followUps[i])}
             c == [NotFollowing EXCEPT !.phase = "reminded", !.found = found]
  <2>1. followCall' = [followCall EXCEPT ![h] = c] /\ UNCHANGED <<followUps, followLog>>
    BY <1>4 DEF FindCandidates, followTables
  <2> HIDE DEF found
  <2>2. c.phase = "reminded"
    BY DEF NotFollowing
  <2> HIDE DEF c
  <2>3. /\ \A j : Closing(H, followCall', j) \subseteq Closing(H, followCall, j)
        /\ \A j : Reminding(H, followCall', j) \subseteq Reminding(H, followCall, j)
    BY <1>c, <2>1, <2>2
  <2> QED BY <2>1, <2>3, FollowLimitsStand
<1>5. ASSUME NEW h \in H, FindReminded(h) PROVE FollowLimits(H)'
  <2> DEFINE due == PendingReminders(followCall[h].found, followUps)
             c == [NotFollowing EXCEPT !.phase = IF due = {} THEN "idle" ELSE "remind", !.found = due]
  <2>1. followCall' = [followCall EXCEPT ![h] = c] /\ UNCHANGED <<followUps, followLog>>
    BY <1>5 DEF FindReminded, followTables
  <2>2. \A j \in due : RemindersIn(followLog, j) = {}
    BY DEF PendingReminders, RemindersOf, RemindersIn, EventsIn
  <2> HIDE DEF due
  <2>3. c.phase \in {"idle", "remind"} /\ c.found = due
    BY DEF NotFollowing
  <2> HIDE DEF c
  <2>4. /\ followCall'[h] = c /\ \A g \in H \ {h} : followCall'[g] = followCall[g]
        /\ \A j : Closing(H, followCall', j) \subseteq Closing(H, followCall, j)
    BY <1>c, <2>1, <2>3
  <2>5. \A j : j \notin due => Reminding(H, followCall', j) \subseteq Reminding(H, followCall, j)
    BY <2>3, <2>4 DEF Reminding
  <2> QED BY <2>1, <2>2, <2>4, <2>5, FollowLimitsStand
<1>6. ASSUME NEW h \in H, Remind(h) PROVE FollowLimits(H)'
  <2> DEFINE due == followCall[h].found  i == CHOOSE i \in due : \A j \in due : i <= j  left == due \ {i}
             c == [NotFollowing EXCEPT !.phase = IF left = {} THEN "idle" ELSE "remind", !.found = left]
             event == [type |-> "FOLLOW_UP_REMINDER", item |-> i]  last == Len(followLog) + 1
  <2>1. /\ followCall[h].phase = "remind" /\ followLog' = Append(followLog, event)
        /\ followCall' = [followCall EXCEPT ![h] = c] /\ followUps' = followUps
    BY <1>6 DEF Remind
  <2>2. due \subseteq 1..Len(followUps) /\ due # {}
    BY <1>t, <2>1 DEF FollowKnows
  <2>3. i \in due
    BY <1>t, <2>2, FirstDue
  <2>l. left = due \ {i} /\ followCall[h].found = due
    OBVIOUS
  <2> HIDE DEF due, i
  <2>4. i \in 1..Len(followUps) /\ i \in 1..MaxFollowUps
    BY <1>t, <2>2, <2>3
  <2>5. event \in FollowUpEvent /\ event.type = "FOLLOW_UP_REMINDER" /\ event.item = i
    BY <2>4, FollowTypes
  <2> HIDE DEF event, left
  <2>6. c.phase \in {"idle", "remind"} /\ c.found = left
    BY DEF NotFollowing
  <2> HIDE DEF c
  <2>7. /\ \A j : OutcomesIn(followLog', j) = OutcomesIn(followLog, j)
        /\ \A j : RemindersIn(followLog', j) = RemindersIn(followLog, j)
                    \cup (IF i = j THEN {last} ELSE {})
    <3>1. /\ \A j : OutcomesIn(followLog', j) = OutcomesIn(followLog, j) \cup
              (IF event.type = "FOLLOW_UP_OUTCOME" /\ event.item = j THEN {Len(followLog) + 1} ELSE {})
          /\ \A j : RemindersIn(followLog', j) = RemindersIn(followLog, j) \cup
              (IF event.type = "FOLLOW_UP_REMINDER" /\ event.item = j THEN {Len(followLog) + 1} ELSE {})
      BY <1>t, <2>1, <2>5, LogGrows
    <3> QED BY <2>5, <3>1
  <2>8. /\ followCall'[h] = c /\ \A g \in H \ {h} : followCall'[g] = followCall[g]
        /\ \A j : Closing(H, followCall', j) \subseteq Closing(H, followCall, j)
    BY <1>c, <2>1, <2>6
  <2>9. /\ h \in Reminding(H, followCall, i)
        /\ Reminding(H, followCall', i) \subseteq Reminding(H, followCall, i) \ {h}
        /\ \A j : Reminding(H, followCall', j) \subseteq Reminding(H, followCall, j)
    BY <2>1, <2>3, <2>l, <2>6, <2>8 DEF Reminding
  <2> HIDE DEF last
  <2>10. ASSUME NEW j \in 1..Len(followUps)
         PROVE  Within(Cardinality(H), RemindersIn(followLog', j), Reminding(H, followCall', j))
    <3>1. Within(Cardinality(H), RemindersIn(followLog, j), Reminding(H, followCall, j))
      BY DEF FollowLimits
    <3>2. CASE i = j
      <4>1. RemindersIn(followLog', j) \subseteq RemindersIn(followLog, j) \cup {last}
        BY <2>7
      <4>2. /\ h \in Reminding(H, followCall, j)
            /\ Reminding(H, followCall', j) \subseteq Reminding(H, followCall, j) \ {h}
        BY <2>9, <3>2
      <4> QED BY <1>0, <3>1, <4>1, <4>2, WithinMoves
    <3>3. CASE i # j
      <4>1. RemindersIn(followLog', j) \subseteq RemindersIn(followLog, j)
        BY <2>7, <3>3
      <4>2. Reminding(H, followCall', j) \subseteq Reminding(H, followCall, j)
        BY <2>9
      <4> QED BY <1>0, <3>1, <4>1, <4>2, WithinFalls
    <3> QED BY <3>2, <3>3
  <2>11. ASSUME NEW j \in 1..Len(followUps)
         PROVE  Within(Cardinality(H), OutcomesIn(followLog', j), Closing(H, followCall', j))
    <3>1. Within(Cardinality(H), OutcomesIn(followLog, j), Closing(H, followCall, j))
      BY DEF FollowLimits
    <3> QED BY <1>0, <2>7, <2>8, <3>1, WithinFalls
  <2> QED BY <2>1, <2>10, <2>11 DEF FollowLimits
<1>7. ASSUME NEW h \in H, FollowAborts(h) PROVE FollowLimits(H)'
  <2>1. followCall' = [followCall EXCEPT ![h] = NotFollowing] /\ UNCHANGED <<followUps, followLog>>
    BY <1>7 DEF FollowAborts, followTables
  <2>2. /\ \A j : Closing(H, followCall', j) \subseteq Closing(H, followCall, j)
        /\ \A j : Reminding(H, followCall', j) \subseteq Reminding(H, followCall, j)
    BY <1>c, <1>i, <2>1
  <2> QED BY <2>1, <2>2, FollowLimitsStand
<1>8. CASE ReviewDayPasses \/ UNCHANGED followVars
  BY <1>8 DEF ReviewDayPasses, followVars, followTables, FollowLimits
<1> QED BY <1>1, <1>2, <1>3, <1>4, <1>5, <1>6, <1>7, <1>8 DEF FollowUpsNext

\* The last outcome that was logged is the one the row tells.
LEMMA FollowLimitsMean ==
  ASSUME NEW H \in SUBSET Handlers, IsFiniteSet(H), FollowInv, FollowLimits(H)
  PROVE  RemindersWithin(Cardinality(H)) /\ OutcomesWithin(Cardinality(H))
<1>0. Cardinality(H) \in Int
  BY FS_CardinalityType
<1>1. \A i : RemindersOf(i) = RemindersIn(followLog, i) /\ OutcomesOf(i) = OutcomesIn(followLog, i)
  BY DEF RemindersOf, OutcomesOf, RemindersIn, OutcomesIn, EventsIn
<1>2. \A i \in 1..Len(followUps) : /\ Cardinality(RemindersIn(followLog, i)) <= Cardinality(H)
                                   /\ Cardinality(OutcomesIn(followLog, i)) <= Cardinality(H)
  BY <1>0, WithinMeans DEF FollowLimits
<1>3. ASSUME NEW i \in 1..Len(followUps), NEW logged, logged = OutcomesIn(followLog, i)
      PROVE  IF logged = {} THEN followUps[i].outcome = "PENDING"
             ELSE followUps[i].outcome = followLog[CHOOSE e \in logged : \A f \in logged : f <= e].outcome
  <2>1. ToldBy(followUps[i], followLog, logged)
    BY <1>3 DEF FollowInv, FollowRows
  <2>2. \A e \in logged : e \in Nat
    BY <1>3 DEF FollowInv, FollowUpsTypeOK, OutcomesIn, EventsIn
  <2>3. CASE logged = {}
    BY <2>1, <2>3 DEF ToldBy
  <2>4. CASE logged # {}
    <3>1. PICK e \in logged : (\A f \in logged : f <= e) /\ followUps[i].outcome = followLog[e].outcome
      BY <2>1, <2>4 DEF ToldBy
    <3> DEFINE c == CHOOSE e1 \in logged : \A f \in logged : f <= e1
    <3>2. c \in logged /\ \A f \in logged : f <= c
      BY <3>1
    <3>3. c <= e /\ e <= c /\ c \in Nat /\ e \in Nat
      BY <2>2, <3>1, <3>2
    <3> HIDE DEF c
    <3>4. c = e
      BY <3>3
    <3> QED BY <2>4, <3>1, <3>4 DEF c
  <2> QED BY <2>3, <2>4
<1> QED BY <1>1, <1>2, <1>3 DEF RemindersWithin, OutcomesWithin

-----------------------------------------------------------------------------
(* One request or pass at a time.                                          *)
LEMMA FollowStepAlone ==
  ASSUME NEW H \in SUBSET Handlers, Lone(H), FollowInv, FollowAlone(H), [FollowUpsNext(H)]_followVars
  PROVE  FollowAlone(H)'
<1> USE DEF FollowGoes, FollowEnds
<1>t. /\ followUps \in Seq(FollowUp) /\ followLog \in Seq(FollowUpEvent)
      /\ Len(followUps) \in Nat /\ Len(followLog) \in Nat /\ Len(followUps) <= MaxFollowUps
      /\ followCall \in [Handlers -> FollowCall] /\ MaxFollowUps \in Nat
      /\ \A h \in Handlers : FollowKnows(Len(followUps), followCall[h])
      /\ FollowRows(followUps, followLog)
  BY FollowUpsAssumption DEF FollowInv, FollowUpsTypeOK, FollowUpsAssumption
<1>i. NotFollowing.phase = "idle"
  BY FollowTypes
<1>o. \A h, g \in H : g = h
  BY DEF Lone
<1>q. ASSUME NEW h \in H, NEW c, followCall' = [followCall EXCEPT ![h] = c],
             UNCHANGED <<followUps, followLog>>,
             c.phase \in {"reminded", "remind"} => \A i \in c.found : OutcomesIn(followLog, i) = {}
      PROVE  FollowAlone(H)'
  <2>1. followCall'[h] = c
    BY <1>q, <1>t
  <2> QED BY <1>q, <1>o, <2>1 DEF FollowAlone
<1>1. ASSUME NEW h \in H, CreateFollowUp(h) PROVE FollowAlone(H)'
  <2> DEFINE n == Len(followUps) + 1  event == [type |-> "FOLLOW_UP", item |-> n]
  <2>1. PICK row \in FollowUp :
          /\ Len(followUps) < MaxFollowUps /\ followUps' = Append(followUps, row)
          /\ followLog' = Append(followLog, event) /\ followCall' = followCall
    BY <1>1 DEF CreateFollowUp
  <2>2. n \in 1..MaxFollowUps /\ Len(followUps') = n /\ 1..n = 1..Len(followUps) \cup {n}
        /\ n \notin 1..Len(followUps)
    BY <1>t, <2>1
  <2>3. event \in FollowUpEvent /\ event.type = "FOLLOW_UP"
    BY <2>2, FollowTypes
  <2>e. followLog' = Append(followLog, event)
    BY <2>1
  <2> HIDE DEF n, event
  <2>4. /\ \A i : OutcomesIn(followLog', i) = OutcomesIn(followLog, i)
        /\ \A i : RemindersIn(followLog', i) = RemindersIn(followLog, i)
    <3>1. /\ \A j : OutcomesIn(followLog', j) = OutcomesIn(followLog, j) \cup
              (IF event.type = "FOLLOW_UP_OUTCOME" /\ event.item = j THEN {Len(followLog) + 1} ELSE {})
          /\ \A j : RemindersIn(followLog', j) = RemindersIn(followLog, j) \cup
              (IF event.type = "FOLLOW_UP_REMINDER" /\ event.item = j THEN {Len(followLog) + 1} ELSE {})
      BY <1>t, <2>3, <2>e, LogGrows
    <3> QED BY <2>3, <3>1
  <2>5. OutcomesIn(followLog, n) = {} /\ RemindersIn(followLog, n) = {}
    BY <1>t, <2>2 DEF FollowRows, OutcomesIn, RemindersIn, EventsIn
  <2> QED BY <2>1, <2>2, <2>4, <2>5 DEF FollowAlone
<1>2. ASSUME NEW h \in H, FindCommitment(h) PROVE FollowAlone(H)'
  <2>1. PICK i \in 1..Len(followUps) :
          /\ followCall' = [followCall EXCEPT ![h] = [NotFollowing EXCEPT !.phase = "close", !.item = i]]
          /\ UNCHANGED <<followUps, followLog>>
    BY <1>2 DEF FindCommitment, followTables
  <2>2. [NotFollowing EXCEPT !.phase = "close", !.item = i].phase = "close"
    BY DEF NotFollowing
  <2> QED BY <1>q, <2>1, <2>2
<1>3. ASSUME NEW h \in H, CloseFollowUp(h) PROVE FollowAlone(H)'
  <2> DEFINE i == followCall[h].item  last == Len(followLog) + 1
  <2>1. PICK outcome \in Outcomes :
          /\ followCall[h].phase = "close" /\ followUps' = [followUps EXCEPT ![i].outcome = outcome]
          /\ followLog' = Append(followLog, [type |-> "FOLLOW_UP_OUTCOME", item |-> i, outcome |-> outcome])
          /\ followCall' = [followCall EXCEPT ![h] = NotFollowing]
    BY <1>3 DEF CloseFollowUp
  <2>2. i \in 1..Len(followUps) /\ i \in 1..MaxFollowUps
    BY <1>t, <2>1 DEF FollowKnows
  <2> HIDE DEF i
  <2> DEFINE event == [type |-> "FOLLOW_UP_OUTCOME", item |-> i, outcome |-> outcome]
  <2>3. event \in FollowUpEvent /\ event.type = "FOLLOW_UP_OUTCOME" /\ event.item = i
    BY <2>2, FollowTypes
  <2>e. followLog' = Append(followLog, event)
    BY <2>1
  <2> HIDE DEF event
  <2>4. /\ \A j : OutcomesIn(followLog', j) = OutcomesIn(followLog, j)
                    \cup (IF i = j THEN {last} ELSE {})
        /\ \A j : RemindersIn(followLog', j) = RemindersIn(followLog, j)
    BY <1>t, <2>3, <2>e, LogGrows
  <2>5. Len(followUps') = Len(followUps)
    BY <1>t, <2>1
  <2>6. \A g \in H : followCall'[g].phase = "idle"
    BY <1>t, <1>i, <1>o, <2>1
  <2>7. \A j : \A r \in RemindersIn(followLog, j) : r < last
    BY <1>t, EventsOfLog
  <2> HIDE DEF last
  <2>8. ASSUME NEW j \in 1..Len(followUps), NEW r \in RemindersIn(followLog', j),
               NEW e \in OutcomesIn(followLog', j)
        PROVE  r < e
    <3>1. r \in RemindersIn(followLog, j) /\ (e \in OutcomesIn(followLog, j) \/ e = last)
      BY <2>4
    <3> QED BY <2>7, <3>1 DEF FollowAlone
  <2> QED BY <2>5, <2>6, <2>8 DEF FollowAlone
<1>4. ASSUME NEW h \in H, FindCandidates(h) PROVE FollowAlone(H)'
  <2> DEFINE found == {i \in 1..Len(followUps) : Candidate(followUps[i])}
             c == [NotFollowing EXCEPT !.phase = "reminded", !.found = found]
  <2>1. followCall' = [followCall EXCEPT ![h] = c] /\ UNCHANGED <<followUps, followLog>>
    BY <1>4 DEF FindCandidates, followTables
  <2>2. \A i \in found : OutcomesIn(followLog, i) = {}
    BY PendingHasNone DEF Candidate
  <2> HIDE DEF found
  <2>3. c.found = found
    BY DEF NotFollowing
  <2> HIDE DEF c
  <2> QED BY <1>q, <2>1, <2>2, <2>3
<1>5. ASSUME NEW h \in H, FindReminded(h) PROVE FollowAlone(H)'
  <2> DEFINE due == PendingReminders(followCall[h].found, followUps)
             c == [NotFollowing EXCEPT !.phase = IF due = {} THEN "idle" ELSE "remind", !.found = due]
  <2>1. followCall[h].phase = "reminded" /\ followCall' = [followCall EXCEPT ![h] = c]
        /\ UNCHANGED <<followUps, followLog>>
    BY <1>5 DEF FindReminded, followTables
  <2>2. \A i \in due : OutcomesIn(followLog, i) = {}
    BY <2>1 DEF PendingReminders, FollowAlone
  <2> HIDE DEF due
  <2>3. c.found = due
    BY DEF NotFollowing
  <2> HIDE DEF c
  <2> QED BY <1>q, <2>1, <2>2, <2>3
<1>6. ASSUME NEW h \in H, Remind(h) PROVE FollowAlone(H)'
  <2> DEFINE due == followCall[h].found  i == CHOOSE i \in due : \A j \in due : i <= j  left == due \ {i}
             c == [NotFollowing EXCEPT !.phase = IF left = {} THEN "idle" ELSE "remind", !.found = left]
             event == [type |-> "FOLLOW_UP_REMINDER", item |-> i]  last == Len(followLog) + 1
  <2>1. /\ followCall[h].phase = "remind" /\ followLog' = Append(followLog, event)
        /\ followCall' = [followCall EXCEPT ![h] = c] /\ followUps' = followUps
    BY <1>6 DEF Remind
  <2>2. due \subseteq 1..Len(followUps) /\ due # {}
    BY <1>t, <2>1 DEF FollowKnows
  <2>3. i \in due
    BY <1>t, <2>2, FirstDue
  <2>l. left \subseteq due /\ followCall[h].found = due
    OBVIOUS
  <2> HIDE DEF due, i
  <2>4. i \in 1..Len(followUps) /\ i \in 1..MaxFollowUps
    BY <1>t, <2>2, <2>3
  <2>5. event \in FollowUpEvent /\ event.type = "FOLLOW_UP_REMINDER" /\ event.item = i
    BY <2>4, FollowTypes
  <2> HIDE DEF event, left
  <2>6. c.found = left
    BY DEF NotFollowing
  <2> HIDE DEF c
  <2>7. /\ \A j : OutcomesIn(followLog', j) = OutcomesIn(followLog, j)
        /\ \A j : RemindersIn(followLog', j) = RemindersIn(followLog, j)
                    \cup (IF i = j THEN {last} ELSE {})
    <3>1. /\ \A j : OutcomesIn(followLog', j) = OutcomesIn(followLog, j) \cup
              (IF event.type = "FOLLOW_UP_OUTCOME" /\ event.item = j THEN {Len(followLog) + 1} ELSE {})
          /\ \A j : RemindersIn(followLog', j) = RemindersIn(followLog, j) \cup
              (IF event.type = "FOLLOW_UP_REMINDER" /\ event.item = j THEN {Len(followLog) + 1} ELSE {})
      BY <1>t, <2>1, <2>5, LogGrows
    <3> QED BY <2>5, <3>1
  <2>8. \A j \in due : OutcomesIn(followLog, j) = {}
    BY <2>1, <2>l DEF FollowAlone
  <2>9. followCall'[h] = c
    BY <1>t, <2>1
  <2> HIDE DEF last
  <2>10. \A g \in H : \A j \in followCall'[g].found : OutcomesIn(followLog', j) = {}
    BY <1>o, <2>l, <2>6, <2>7, <2>8, <2>9
  <2>11. \A j \in 1..Len(followUps) :
           \A r \in RemindersIn(followLog', j), e \in OutcomesIn(followLog', j) : r < e
    BY <2>3, <2>7, <2>8 DEF FollowAlone
  <2> QED BY <2>1, <2>10, <2>11 DEF FollowAlone
<1>7. ASSUME NEW h \in H, FollowAborts(h) PROVE FollowAlone(H)'
  <2>1. followCall' = [followCall EXCEPT ![h] = NotFollowing] /\ UNCHANGED <<followUps, followLog>>
    BY <1>7 DEF FollowAborts, followTables
  <2> QED BY <1>i, <1>q, <2>1
<1>8. CASE ReviewDayPasses \/ UNCHANGED followVars
  BY <1>8 DEF ReviewDayPasses, followVars, followTables, FollowAlone
<1> QED BY <1>1, <1>2, <1>3, <1>4, <1>5, <1>6, <1>7, <1>8 DEF FollowUpsNext

LEMMA FollowAloneMeans ==
  ASSUME NEW H, FollowAlone(H) PROVE RemindedWhilePending
  BY DEF FollowAlone, RemindedWhilePending, RemindersOf, OutcomesOf, RemindersIn, OutcomesIn, EventsIn

-----------------------------------------------------------------------------
(* The opening of a case, its notices and the letters.                     *)

(* The opening of cases.                                                   *)
Notices(T) == [T -> Notice]
CaseFile == [year : Years, number : 1..MaxFiles, notices : UNION {Notices(T) : T \in SUBSET Tutors}]

FiledIn(list, n, y) == {f \in 1..n : list[f].year = y}
FiledCount(list, y) == Cardinality(FiledIn(list, Len(list), y))

NumbersFit(list) ==
  /\ \A f \in 1..Len(list) : list[f].number = Cardinality(FiledIn(list, f, list[f].year))
  /\ \A f, g \in 1..Len(list) : list[f].year = list[g].year /\ list[f].number = list[g].number => f = g

\* The row of a year holds its last number.
RowsFit(rows, list) ==
  \A y \in Years : FiledCount(list, y) = (IF Present(rows[y]) THEN rows[y] ELSE 0)

Sending == {"mail", "sent", "failed"}

\* What a request knows of the cases and their letters.
IntakeKnows(list, mails, c) ==
  /\ c.phase # "idle" => c.year \in Years
  /\ c.phase = "save" => c.number = FiledCount(list, c.year) + 1
  /\ c.phase \in Sending \cup {"read"} => \E f \in 1..Len(list) :
       /\ list[f].year = c.year /\ list[f].number = c.number
       /\ c.phase \in Sending => c.tutors \subseteq DOMAIN list[f].notices
       /\ c.phase \in {"sent", "failed", "read"} => c.to \in DOMAIN list[f].notices
  /\ c.phase \in Sending => \A l \in mails :
       l.year = c.year /\ l.number = c.number => l.to \notin c.tutors
  /\ c.phase = "sent" => \E l \in mails : l.year = c.year /\ l.number = c.number /\ l.to = c.to

\* The row of a year is locked by whom has drawn a number from it; one request mails.
IntakeApart(held, calls) ==
  /\ \A h \in Handlers : held[h] = (IF calls[h].phase = "save" THEN {calls[h].year} ELSE {})
  /\ \A g, h \in Handlers : g # h =>
       /\ held[g] \cap held[h] = {}
       /\ calls[g].phase \in Sending /\ calls[h].phase \in Sending =>
            ~(calls[g].year = calls[h].year /\ calls[g].number = calls[h].number)

Mailed(mails, y, number, t) == {l \in mails : l.year = y /\ l.number = number /\ l.to = t}

LettersFit(list, mails) ==
  /\ \A l \in mails : /\ l.to \in Tutors /\ l.nth \in Nat
                       /\ \E f \in 1..Len(list) : /\ list[f].year = l.year /\ list[f].number = l.number
                                                 /\ l.to \in DOMAIN list[f].notices
  /\ \A k, l \in mails : k.year = l.year /\ k.number = l.number /\ k.to = l.to => k = l
  /\ \A f \in 1..Len(list) : \A t \in DOMAIN list[f].notices :
       list[f].notices[t].email = "SENT" => Mailed(mails, list[f].year, list[f].number, t) # {}

IntakeInv ==
  /\ year \in Years /\ sequences \in [Years -> 0..MaxFiles \cup {None}]
  /\ files \in Seq(CaseFile) /\ Len(files) <= MaxFiles
  /\ tutorLinks \subseteq Tutors /\ yearLock \in [Handlers -> SUBSET Years]
  /\ intake \in [Handlers -> Intake]
  /\ NumbersFit(files) /\ RowsFit(sequences, files) /\ LettersFit(files, letters)
  /\ \A h \in Handlers : IntakeKnows(files, letters, intake[h])
  /\ IntakeApart(yearLock, intake)

LEMMA IntakeFacts ==
  ASSUME IntakeInv
  PROVE  /\ year \in Years /\ sequences \in [Years -> 0..MaxFiles \cup {None}]
         /\ files \in Seq(CaseFile) /\ Len(files) \in Nat /\ Len(files) <= MaxFiles /\ MaxFiles \in Nat
         /\ tutorLinks \subseteq Tutors /\ yearLock \in [Handlers -> SUBSET Years]
         /\ intake \in [Handlers -> Intake]
         /\ NumbersFit(files) /\ RowsFit(sequences, files) /\ LettersFit(files, letters)
         /\ \A h \in Handlers : IntakeKnows(files, letters, intake[h])
         /\ IntakeApart(yearLock, intake)
  BY IntakeAssumption DEF IntakeInv, IntakeAssumption

LEMMA NoIntakeFits ==
  /\ NoIntake \in Intake /\ NoIntake.phase = "idle"
  /\ \A list, mails : IntakeKnows(list, mails, NoIntake)
<1>1. NoIntake \in Intake /\ NoIntake.phase = "idle"
  BY IntakeAssumption DEF NoIntake, Intake, IntakeAssumption
<1> QED BY <1>1 DEF IntakeKnows, Sending

\* Counting the cases of a year.
LEMMA FiledIsFinite ==
  ASSUME NEW list, NEW n \in Nat, NEW y
  PROVE  /\ IsFiniteSet(FiledIn(list, n, y)) /\ Cardinality(FiledIn(list, n, y)) \in 0..n
<1>1. IsFiniteSet(1..n) /\ Cardinality(1..n) = n
  BY FS_Interval
<1>2. FiledIn(list, n, y) \subseteq 1..n
  BY DEF FiledIn
<1>3. IsFiniteSet(FiledIn(list, n, y)) /\ Cardinality(FiledIn(list, n, y)) <= n
  BY <1>1, <1>2, FS_Subset
<1>4. Cardinality(FiledIn(list, n, y)) \in Nat
  BY <1>3, FS_CardinalityType
<1> QED BY <1>3, <1>4

LEMMA FiledGrows ==
  ASSUME files \in Seq(CaseFile), NEW file \in CaseFile, files' = Append(files, file)
  PROVE  /\ Len(files') = Len(files) + 1 /\ files' \in Seq(CaseFile) /\ files'[Len(files) + 1] = file
         /\ \A f \in 1..Len(files) : files'[f] = files[f]
         /\ \A f \in 1..Len(files) : \A y : FiledIn(files', f, y) = FiledIn(files, f, y)
         /\ \A y : FiledCount(files', y) = FiledCount(files, y) + (IF file.year = y THEN 1 ELSE 0)
<1> DEFINE n == Len(files)  last == Len(files) + 1
<1>1. /\ Len(files') = last /\ files' \in Seq(CaseFile) /\ files'[last] = file /\ n \in Nat /\ last \in Nat
      /\ \A f \in 1..n : files'[f] = files[f]
  OBVIOUS
<1>2. 1..last = 1..n \cup {last} /\ last \notin 1..n /\ \A f \in 1..n : 1..f \subseteq 1..n
  BY <1>1
<1>n. n = Len(files)
  OBVIOUS
<1> HIDE DEF last, n
<1>3. \A f \in 1..n : \A y : FiledIn(files', f, y) = FiledIn(files, f, y)
  BY <1>1, <1>2 DEF FiledIn
<1>4. ASSUME NEW y PROVE FiledCount(files', y) = FiledCount(files, y) + (IF file.year = y THEN 1 ELSE 0)
  <2> DEFINE before == FiledIn(files, n, y)  after == FiledIn(files', last, y)
  <2>0. last \notin before
    BY <1>2 DEF FiledIn
  <2>1. IsFiniteSet(before) /\ Cardinality(before) \in Nat
    <3>1. IsFiniteSet(before)
      BY <1>1, FiledIsFinite
    <3> QED BY <3>1, FS_CardinalityType
  <2>2. after = before \cup (IF file.year = y THEN {last} ELSE {})
    BY <1>1, <1>2 DEF FiledIn
  <2>3. FiledCount(files', y) = Cardinality(after) /\ FiledCount(files, y) = Cardinality(before)
    BY <1>1, <1>n DEF FiledCount
  <2> HIDE DEF before, after
  <2>4. CASE file.year = y
    <3>1. Cardinality(before \cup {last}) = Cardinality(before) + 1
      BY <2>0, <2>1, FS_AddElement
    <3> QED BY <2>2, <2>3, <2>4, <3>1
  <2>5. CASE file.year # y
    <3>1. after = before
      BY <2>2, <2>5
    <3> QED BY <2>1, <2>3, <2>5, <3>1
  <2> QED BY <2>4, <2>5
<1> QED BY <1>1, <1>3, <1>4, <1>n DEF last

LEMMA IntakeInitFits == IntakeInit => IntakeInv
<1> SUFFICES ASSUME IntakeInit PROVE IntakeInv
  OBVIOUS
<1>1. /\ year \in Years /\ sequences \in [Years -> 0..MaxFiles \cup {None}]
      /\ files \in Seq(CaseFile) /\ Len(files) = 0 /\ Len(files) <= MaxFiles
      /\ tutorLinks \subseteq Tutors /\ letters = {}
  BY IntakeAssumption DEF IntakeInit, IntakeAssumption, Years
<1>2. intake \in [Handlers -> Intake] /\ yearLock \in [Handlers -> SUBSET Years]
      /\ \A h \in Handlers : intake[h] = NoIntake /\ yearLock[h] = {}
  BY NoIntakeFits DEF IntakeInit
<1>3. NumbersFit(files) /\ LettersFit(files, letters)
  BY <1>1 DEF NumbersFit, LettersFit
<1>4. RowsFit(sequences, files)
  <2>1. \A y : FiledIn(files, Len(files), y) = {}
    BY <1>1 DEF FiledIn
  <2>2. \A y : FiledCount(files, y) = 0
    BY <2>1, FS_EmptySet DEF FiledCount
  <2>3. \A y \in Years : ~Present(sequences[y])
    BY DEF IntakeInit, Present
  <2> QED BY <2>2, <2>3 DEF RowsFit
<1>5. IntakeApart(yearLock, intake)
  BY <1>2, NoIntakeFits DEF IntakeApart, Sending
<1> QED BY <1>1, <1>2, <1>3, <1>4, <1>5, NoIntakeFits DEF IntakeInv

\* A request goes on, and the tables stand.
LEMMA IntakeGoesOn ==
  ASSUME IntakeInv, NEW h \in Handlers, NEW c \in Intake, intake' = [intake EXCEPT ![h] = c],
         UNCHANGED <<year, sequences, files, tutorLinks, letters>>,
         IntakeKnows(files, letters, c), yearLock' \in [Handlers -> SUBSET Years],
         IntakeApart(yearLock', intake')
  PROVE  IntakeInv'
<1>1. intake' \in [Handlers -> Intake] /\ intake'[h] = c /\ \A g \in Handlers \ {h} : intake'[g] = intake[g]
  BY DEF IntakeInv
<1>2. \A g \in Handlers : IntakeKnows(files, letters, intake'[g])
  BY <1>1 DEF IntakeInv
<1> QED BY <1>1, <1>2 DEF IntakeInv

\* It neither draws a number nor begins to mail.
LEMMA IntakeStaysApart ==
  ASSUME IntakeInv, NEW h \in Handlers, NEW c, intake' = [intake EXCEPT ![h] = c],
         c.phase # "save",
         c.phase \in Sending => /\ intake[h].phase \in Sending
                                /\ c.year = intake[h].year /\ c.number = intake[h].number,
         \/ yearLock' = yearLock /\ intake[h].phase # "save"
         \/ yearLock' = [yearLock EXCEPT ![h] = {}]
  PROVE  IntakeApart(yearLock', intake') /\ yearLock' \in [Handlers -> SUBSET Years]
<1>1. intake'[h] = c /\ \A g \in Handlers \ {h} : intake'[g] = intake[g]
  BY DEF IntakeInv
<1>2. /\ yearLock'[h] = {} /\ \A g \in Handlers \ {h} : yearLock'[g] = yearLock[g]
      /\ yearLock' \in [Handlers -> SUBSET Years]
  BY DEF IntakeInv, IntakeApart
<1>3. IntakeApart(yearLock, intake)
  BY DEF IntakeInv
<1>4. \A g \in Handlers : yearLock'[g] = (IF intake'[g].phase = "save" THEN {intake'[g].year} ELSE {})
  BY <1>1, <1>2, <1>3 DEF IntakeApart
<1>5. \A g \in Handlers : yearLock'[g] \subseteq yearLock[g]
  BY <1>2
<1>6. \A g \in Handlers : intake'[g].phase \in Sending =>
        /\ intake[g].phase \in Sending
        /\ intake'[g].year = intake[g].year /\ intake'[g].number = intake[g].number
  BY <1>1
<1>7. ASSUME NEW g \in Handlers, NEW k \in Handlers, g # k
      PROVE  /\ yearLock'[g] \cap yearLock'[k] = {}
             /\ intake'[g].phase \in Sending /\ intake'[k].phase \in Sending =>
                  ~(intake'[g].year = intake'[k].year /\ intake'[g].number = intake'[k].number)
  <2>1. yearLock[g] \cap yearLock[k] = {}
    BY <1>3, <1>7 DEF IntakeApart
  <2>2. intake[g].phase \in Sending /\ intake[k].phase \in Sending =>
          ~(intake[g].year = intake[k].year /\ intake[g].number = intake[k].number)
    BY <1>3, <1>7 DEF IntakeApart
  <2>3. yearLock'[g] \cap yearLock'[k] = {}
    BY <1>5, <2>1
  <2> QED BY <1>6, <2>2, <2>3
<1> QED BY <1>2, <1>4, <1>7 DEF IntakeApart

\* The case a request holds is the one it finds by its number.
LEMMA FileFound ==
  ASSUME NumbersFit(files), NEW f \in 1..Len(files)
  PROVE  File(files[f].year, files[f].number) = f
  BY DEF NumbersFit, File

\* A notice of a case changes: its year, its number and its guardians do not.
LEMMA NoticeChanges ==
  ASSUME IntakeInv, NEW f \in 1..Len(files), NEW t \in DOMAIN files[f].notices, NEW note \in Notice,
         NEW file, file = [files[f] EXCEPT !.notices = [files[f].notices EXCEPT ![t] = note]],
         files' = [files EXCEPT ![f] = file]
  PROVE  /\ files' \in Seq(CaseFile) /\ Len(files') = Len(files)
         /\ \A g \in 1..Len(files) : /\ files'[g].year = files[g].year
                                      /\ files'[g].number = files[g].number
                                      /\ DOMAIN files'[g].notices = DOMAIN files[g].notices
         /\ \A g \in 1..Len(files) : \A u \in DOMAIN files[g].notices :
              files'[g].notices[u] = IF g = f /\ u = t THEN note ELSE files[g].notices[u]
         /\ NumbersFit(files') /\ \A rows : RowsFit(rows, files) => RowsFit(rows, files')
         /\ \A mails, c : IntakeKnows(files, mails, c) => IntakeKnows(files', mails, c)
<1>t. files \in Seq(CaseFile) /\ Len(files) \in Nat /\ NumbersFit(files)
  BY IntakeFacts
<1>1. /\ files[f] \in CaseFile /\ files[f].notices \in Notices(DOMAIN files[f].notices)
      /\ DOMAIN files[f].notices \subseteq Tutors
  <2>1. files[f] \in CaseFile
    BY <1>t
  <2>2. PICK T \in SUBSET Tutors : files[f].notices \in Notices(T)
    BY <2>1 DEF CaseFile
  <2> QED BY <2>1, <2>2 DEF Notices
<1>2. [files[f].notices EXCEPT ![t] = note] \in Notices(DOMAIN files[f].notices)
  BY <1>1 DEF Notices
<1>3. /\ file \in CaseFile /\ file.year = files[f].year /\ file.number = files[f].number
      /\ DOMAIN file.notices = DOMAIN files[f].notices
      /\ \A u \in DOMAIN files[f].notices :
           file.notices[u] = IF u = t THEN note ELSE files[f].notices[u]
  BY <1>1, <1>2 DEF CaseFile, Notices
<1>5. /\ files' \in Seq(CaseFile) /\ Len(files') = Len(files)
      /\ \A g \in 1..Len(files) : files'[g] = IF g = f THEN file ELSE files[g]
  BY <1>t, <1>3
<1>6. \A g \in 1..Len(files) : /\ files'[g].year = files[g].year
                               /\ files'[g].number = files[g].number
                               /\ DOMAIN files'[g].notices = DOMAIN files[g].notices
  BY <1>3, <1>5
<1>7. \A g \in 1..Len(files) : \A u \in DOMAIN files[g].notices :
        files'[g].notices[u] = IF g = f /\ u = t THEN note ELSE files[g].notices[u]
  <2> TAKE g \in 1..Len(files)
  <2> TAKE u \in DOMAIN files[g].notices
  <2>1. CASE g = f
    BY <1>3, <1>5, <2>1
  <2>2. CASE g # f
    BY <1>5, <2>2
  <2> QED BY <2>1, <2>2
<1>8. \A n \in 0..Len(files) : \A y : FiledIn(files', n, y) = FiledIn(files, n, y)
  BY <1>t, <1>6 DEF FiledIn
<1>9. NumbersFit(files')
  <2>1. \A g \in 1..Len(files) : g \in 0..Len(files)
    BY <1>t
  <2>2. \A g \in 1..Len(files) : files'[g].number = Cardinality(FiledIn(files', g, files'[g].year))
    <3> TAKE g \in 1..Len(files)
    <3>1. FiledIn(files', g, files'[g].year) = FiledIn(files, g, files[g].year)
      <4>1. g \in 0..Len(files) /\ files'[g].year = files[g].year
        BY <1>6, <2>1
      <4> QED BY <1>8, <4>1
    <3>2. files[g].number = Cardinality(FiledIn(files, g, files[g].year))
      BY <1>t DEF NumbersFit
    <3> QED BY <1>6, <3>1, <3>2
  <2>3. \A g, k \in 1..Len(files) : files'[g].year = files'[k].year /\ files'[g].number = files'[k].number => g = k
    BY <1>t, <1>6 DEF NumbersFit
  <2> QED BY <1>5, <2>2, <2>3 DEF NumbersFit
<1>10. \A y : FiledCount(files', y) = FiledCount(files, y)
  <2>1. Len(files) \in 0..Len(files)
    BY <1>t
  <2> QED BY <1>5, <1>8, <2>1 DEF FiledCount
<1>11. \A rows : RowsFit(rows, files) => RowsFit(rows, files')
  BY <1>10 DEF RowsFit
<1>12. \A mails, c : IntakeKnows(files, mails, c) => IntakeKnows(files', mails, c)
  <2> SUFFICES ASSUME NEW mails, NEW c, IntakeKnows(files, mails, c)
               PROVE  IntakeKnows(files', mails, c)
    OBVIOUS
  <2> QED BY <1>5, <1>6, <1>10 DEF IntakeKnows
<1> QED BY <1>5, <1>6, <1>7, <1>9, <1>11, <1>12

LEMMA IntakeStep == IntakeInv /\ [IntakeNext(Handlers)]_intakeVars => IntakeInv'
<1> SUFFICES ASSUME IntakeInv, [IntakeNext(Handlers)]_intakeVars PROVE IntakeInv'
  OBVIOUS
<1> USE DEF IntakeGoes, IntakeEnds, intakeTables
<1>t. /\ year \in Years /\ sequences \in [Years -> 0..MaxFiles \cup {None}]
      /\ files \in Seq(CaseFile) /\ Len(files) \in Nat /\ Len(files) <= MaxFiles /\ MaxFiles \in Nat
      /\ tutorLinks \subseteq Tutors /\ yearLock \in [Handlers -> SUBSET Years]
      /\ intake \in [Handlers -> Intake]
      /\ NumbersFit(files) /\ RowsFit(sequences, files) /\ LettersFit(files, letters)
      /\ \A h \in Handlers : IntakeKnows(files, letters, intake[h])
      /\ IntakeApart(yearLock, intake)
  BY IntakeFacts
<1>i. /\ NoIntake \in Intake /\ NoIntake.phase = "idle"
      /\ \A list, mails : IntakeKnows(list, mails, NoIntake)
  BY NoIntakeFits
\* A request goes on without a number of its own or a new case to mail about.
<1>g. ASSUME NEW h \in Handlers, NEW c \in Intake, intake' = [intake EXCEPT ![h] = c],
             UNCHANGED <<year, sequences, files, tutorLinks, letters>>,
             IntakeKnows(files, letters, c), c.phase # "save",
             c.phase \in Sending => /\ intake[h].phase \in Sending
                                    /\ c.year = intake[h].year /\ c.number = intake[h].number,
             \/ yearLock' = yearLock /\ intake[h].phase # "save"
             \/ yearLock' = [yearLock EXCEPT ![h] = {}]
      PROVE  IntakeInv'
  BY <1>g, IntakeStaysApart, IntakeGoesOn
<1>1. ASSUME NEW h \in Handlers, StartCase(h) PROVE IntakeInv'
  <2>1. PICK direct \in BOOLEAN :
          /\ intake[h].phase = "idle"
          /\ intake' = [intake EXCEPT ![h] = [NoIntake EXCEPT !.phase = "sequence", !.year = year,
                                                  !.tutors = IF direct THEN tutorLinks ELSE {}]]
          /\ UNCHANGED <<year, sequences, files, tutorLinks, yearLock, letters>>
    BY <1>1 DEF StartCase
  <2> DEFINE whom == IF direct THEN tutorLinks ELSE {}
             c == [NoIntake EXCEPT !.phase = "sequence", !.year = year, !.tutors = whom]
  <2>2. whom \subseteq Tutors
    BY <1>t
  <2>e. intake' = [intake EXCEPT ![h] = c]
    BY <2>1
  <2> HIDE DEF whom
  <2>3. c \in Intake /\ c.phase = "sequence" /\ c.year = year
    BY <1>t, <1>i, <2>2 DEF Intake
  <2> HIDE DEF c
  <2>4. IntakeKnows(files, letters, c)
    BY <1>t, <2>3 DEF IntakeKnows, Sending
  <2> QED BY <1>g, <2>1, <2>e, <2>3, <2>4 DEF Sending
<1>2. ASSUME NEW h \in Handlers, DrawNumber(h) PROVE IntakeInv'
  <2> DEFINE y == intake[h].year  c == [intake[h] EXCEPT !.phase = "save", !.number = LastValue(y) + 1]
  <2>1. /\ intake[h].phase = "sequence" /\ YearFree(h, y) /\ yearLock' = [yearLock EXCEPT ![h] = {y}]
        /\ intake' = [intake EXCEPT ![h] = c]
        /\ UNCHANGED <<year, sequences, files, tutorLinks, letters>>
    BY <1>2 DEF DrawNumber
  <2>2. y \in Years /\ intake[h] \in Intake
    BY <1>t, <2>1 DEF IntakeKnows
  <2>3. LastValue(y) = FiledCount(files, y) /\ LastValue(y) \in 0..MaxFiles
    <3>1. LastValue(y) = FiledCount(files, y)
      BY <1>t, <2>2 DEF RowsFit, LastValue
    <3>2. FiledCount(files, y) \in 0..Len(files)
      BY <1>t, FiledIsFinite DEF FiledCount
    <3> QED BY <1>t, <3>1, <3>2
  <2>4. LastValue(y) + 1 \in 0..(MaxFiles + 1)
    BY <1>t, <2>3
  <2>5. c \in Intake /\ c.phase = "save" /\ c.year = y /\ c.number = LastValue(y) + 1
    BY <2>2, <2>4 DEF Intake
  <2> HIDE DEF c, y
  <2>6. IntakeKnows(files, letters, c)
    BY <2>2, <2>3, <2>5 DEF IntakeKnows, Sending
  <2>7. /\ intake'[h] = c /\ \A g \in Handlers \ {h} : intake'[g] = intake[g]
        /\ yearLock'[h] = {y} /\ \A g \in Handlers \ {h} : yearLock'[g] = yearLock[g]
        /\ yearLock' \in [Handlers -> SUBSET Years]
    BY <1>t, <2>1, <2>2
  <2>8. \A g \in Handlers \ {h} : yearLock[g] \cap {y} = {}
    BY <2>1 DEF YearFree, FreeOf
  <2>9. IntakeApart(yearLock', intake')
    <3>1. \A g \in Handlers : yearLock'[g] = (IF intake'[g].phase = "save" THEN {intake'[g].year} ELSE {})
      BY <1>t, <2>5, <2>7 DEF IntakeApart
    <3>2. \A g, k \in Handlers : g # k => yearLock'[g] \cap yearLock'[k] = {}
      BY <1>t, <2>7, <2>8 DEF IntakeApart
    <3>3. \A g, k \in Handlers : g # k => (intake'[g].phase \in Sending /\ intake'[k].phase \in Sending =>
            ~(intake'[g].year = intake'[k].year /\ intake'[g].number = intake'[k].number))
      BY <1>t, <2>5, <2>7 DEF IntakeApart, Sending
    <3> QED BY <3>1, <3>2, <3>3 DEF IntakeApart
  <2> QED BY <2>1, <2>5, <2>6, <2>7, <2>9, IntakeGoesOn
<1>3. ASSUME NEW h \in Handlers, SaveCase(h) PROVE IntakeInv'
  <2> DEFINE y == intake[h].year  number == intake[h].number  whom == intake[h].tutors
             notices == [t \in whom |-> [email |-> "SKIPPED", read |-> None]]
             file == [year |-> y, number |-> number, notices |-> notices]
             last == Len(files) + 1
             c == IF whom = {} THEN NoIntake ELSE [intake[h] EXCEPT !.phase = "mail"]
  <2>1. /\ intake[h].phase = "save" /\ Len(files) < MaxFiles
        /\ \A f \in 1..Len(files) : ~(files[f].year = y /\ files[f].number = number)
        /\ files' = Append(files, file) /\ sequences' = [sequences EXCEPT ![y] = number]
        /\ yearLock' = [yearLock EXCEPT ![h] = {}] /\ intake' = [intake EXCEPT ![h] = c]
        /\ UNCHANGED <<year, tutorLinks, letters>>
    BY <1>3 DEF SaveCase
  <2>2. y \in Years /\ number = FiledCount(files, y) + 1 /\ intake[h] \in Intake /\ whom \subseteq Tutors
    BY <1>t, <2>1 DEF IntakeKnows, Intake
  <2>3. number \in 1..MaxFiles
    <3>1. FiledCount(files, y) \in 0..Len(files)
      BY <1>t, FiledIsFinite DEF FiledCount
    <3> QED BY <1>t, <2>1, <2>2, <3>1
  <2>4. /\ notices \in Notices(whom) /\ DOMAIN notices = whom
        /\ \A t \in whom : notices[t].email = "SKIPPED"
    BY DEF Notices, Notice
  <2>c. /\ c \in Intake
        /\ \/ c = NoIntake
           \/ c.phase = "mail" /\ c.year = y /\ c.number = number /\ c.tutors = whom
    <3>1. [intake[h] EXCEPT !.phase = "mail"] \in Intake
      BY <2>2 DEF Intake
    <3>2. CASE intake[h].tutors = {}
      <4>1. c = NoIntake
        BY <3>2
      <4> HIDE DEF c
      <4> QED BY <1>i, <4>1
    <3>3. CASE intake[h].tutors # {}
      <4>1. c = [intake[h] EXCEPT !.phase = "mail"]
        BY <3>3
      <4> HIDE DEF c
      <4>2. c \in Intake
        BY <3>1, <4>1
      <4>3. c.phase = "mail" /\ c.year = intake[h].year /\ c.number = intake[h].number /\ c.tutors = intake[h].tutors
        BY <2>2, <4>1 DEF Intake
      <4> QED BY <4>2, <4>3
    <3> QED BY <3>2, <3>3
  <2>y. intake[h].year = y /\ intake[h].number = number
    OBVIOUS
  <2> HIDE DEF notices, c, y, number, whom
  <2>5. /\ file \in CaseFile /\ file.year = y /\ file.number = number /\ file.notices = notices
    BY <2>2, <2>3, <2>4 DEF CaseFile
  <2> HIDE DEF file
  <2>6. /\ Len(files') = last /\ files' \in Seq(CaseFile) /\ files'[last] = file
        /\ \A f \in 1..Len(files) : files'[f] = files[f]
        /\ \A f \in 1..Len(files) : \A z : FiledIn(files', f, z) = FiledIn(files, f, z)
        /\ \A z : FiledCount(files', z) = FiledCount(files, z) + (IF file.year = z THEN 1 ELSE 0)
    <3>1. files \in Seq(CaseFile) /\ file \in CaseFile /\ files' = Append(files, file)
      BY <1>t, <2>1, <2>5
    <3> HIDE DEF last
    <3>2. /\ Len(files') = Len(files) + 1 /\ files' \in Seq(CaseFile) /\ files'[Len(files) + 1] = file
          /\ \A f \in 1..Len(files) : files'[f] = files[f]
          /\ \A f \in 1..Len(files) : \A z : FiledIn(files', f, z) = FiledIn(files, f, z)
          /\ \A z : FiledCount(files', z) = FiledCount(files, z) + (IF file.year = z THEN 1 ELSE 0)
      BY <3>1, FiledGrows
    <3> QED BY <3>2 DEF last
  <2>7. 1..last = 1..Len(files) \cup {last} /\ last \notin 1..Len(files) /\ last <= MaxFiles
    BY <1>t, <2>1
  <2> HIDE DEF last
  <2>8. NumbersFit(files')
    <3>1. file.number = Cardinality(FiledIn(files', last, y))
      BY <2>2, <2>5, <2>6 DEF FiledCount
    <3>2. \A f \in 1..last : files'[f].number = Cardinality(FiledIn(files', f, files'[f].year))
      BY <1>t, <2>5, <2>6, <2>7, <3>1 DEF NumbersFit
    <3>3. \A f, g \in 1..last : files'[f].year = files'[g].year /\ files'[f].number = files'[g].number => f = g
      BY <1>t, <2>1, <2>5, <2>6, <2>7 DEF NumbersFit
    <3> QED BY <2>6, <3>2, <3>3 DEF NumbersFit
  <2>9. RowsFit(sequences', files') /\ sequences' \in [Years -> 0..MaxFiles \cup {None}]
    <3>1. sequences'[y] = number /\ \A z \in Years \ {y} : sequences'[z] = sequences[z]
      BY <1>t, <2>1, <2>2
    <3>2. number \in 0..MaxFiles /\ number # None
      BY <2>3, IntakeAssumption DEF IntakeAssumption
    <3>3. sequences' \in [Years -> 0..MaxFiles \cup {None}]
      BY <1>t, <2>1, <3>2
    <3>4. FiledCount(files', y) = number
      BY <2>2, <2>5, <2>6
    <3>5. \A z : FiledCount(files, z) \in Nat
      BY <1>t, FiledIsFinite DEF FiledCount
    <3>6. \A z \in Years \ {y} : FiledCount(files', z) = FiledCount(files, z)
      BY <2>5, <2>6, <3>5
    <3> QED BY <1>t, <3>1, <3>2, <3>3, <3>4, <3>6 DEF RowsFit, Present
  <2>10. \A l \in letters : ~(l.year = y /\ l.number = number)
    BY <1>t, <2>1 DEF LettersFit
  <2>11. LettersFit(files', letters)
    <3>1. \A l \in letters : \E f \in 1..last :
            files'[f].year = l.year /\ files'[f].number = l.number /\ l.to \in DOMAIN files'[f].notices
      BY <1>t, <2>6, <2>7 DEF LettersFit
    <3>2. \A f \in 1..last : \A t \in DOMAIN files'[f].notices :
            files'[f].notices[t].email = "SENT" =>
              Mailed(letters, files'[f].year, files'[f].number, t) # {}
      <4> TAKE f \in 1..last
      <4>1. CASE f = last
        BY <2>4, <2>5, <2>6, <4>1
      <4>2. CASE f # last
        <5>1. f \in 1..Len(files) /\ files'[f] = files[f]
          BY <2>6, <2>7, <4>2
        <5> QED BY <1>t, <5>1 DEF LettersFit
      <4> QED BY <4>1, <4>2
    <3>3. \A l \in letters : l.to \in Tutors /\ l.nth \in Nat
      BY <1>t DEF LettersFit
    <3>4. \A k, l \in letters : k.year = l.year /\ k.number = l.number /\ k.to = l.to => k = l
      BY <1>t DEF LettersFit
    <3> QED BY <2>6, <3>1, <3>2, <3>3, <3>4 DEF LettersFit
  <2>12. /\ intake'[h] = c /\ \A g \in Handlers \ {h} : intake'[g] = intake[g]
         /\ intake' \in [Handlers -> Intake]
         /\ yearLock'[h] = {} /\ \A g \in Handlers \ {h} : yearLock'[g] = yearLock[g]
         /\ yearLock' \in [Handlers -> SUBSET Years]
    BY <1>t, <2>1, <2>c
  <2>13. ASSUME NEW g \in Handlers PROVE IntakeKnows(files', letters, intake'[g])
    <3>1. CASE g = h
      <4>1. CASE c = NoIntake
        BY <1>i, <2>12, <3>1, <4>1
      <4>2. CASE c.phase = "mail" /\ c.year = y /\ c.number = number /\ c.tutors = whom
        <5>1. \E f \in 1..Len(files') : files'[f].year = c.year /\ files'[f].number = c.number
                                         /\ c.tutors \subseteq DOMAIN files'[f].notices
          BY <2>4, <2>5, <2>6, <2>7, <4>2
        <5> QED BY <2>2, <2>10, <2>12, <3>1, <4>2, <5>1 DEF IntakeKnows
      <4> QED BY <2>c, <4>1, <4>2
    <3>2. CASE g # h
      <4>1. IntakeKnows(files, letters, intake[g]) /\ intake'[g] = intake[g]
        BY <1>t, <2>12, <3>2
      <4>2. intake[g].phase = "save" => intake[g].year # y
        BY <1>t, <2>1, <2>y, <3>2 DEF IntakeApart
      <4>3. \A z : FiledCount(files, z) \in Nat
        BY <1>t, FiledIsFinite DEF FiledCount
      <4>4. intake[g].phase = "save" => FiledCount(files', intake[g].year) = FiledCount(files, intake[g].year)
        BY <2>5, <2>6, <4>2, <4>3
      <4>5. \A f \in 1..Len(files) : f \in 1..Len(files') /\ files'[f] = files[f]
        BY <2>6, <2>7
      <4> QED BY <4>1, <4>4, <4>5 DEF IntakeKnows
    <3> QED BY <3>1, <3>2
  <2>14. IntakeApart(yearLock', intake')
    <3>1. c.phase # "save"
      BY <1>i, <2>c
    <3>2. \A g \in Handlers : yearLock'[g] = (IF intake'[g].phase = "save" THEN {intake'[g].year} ELSE {})
      BY <1>t, <2>12, <3>1 DEF IntakeApart
    <3>3. \A g, k \in Handlers : g # k => yearLock'[g] \cap yearLock'[k] = {}
      BY <1>t, <2>12 DEF IntakeApart
    <3>4. \A g \in Handlers \ {h} : intake[g].phase \in Sending => ~(intake[g].year = y /\ intake[g].number = number)
      BY <1>t, <2>1 DEF IntakeKnows
    <3>5. ASSUME NEW g \in Handlers, NEW k \in Handlers, g # k,
                 intake'[g].phase \in Sending, intake'[k].phase \in Sending
          PROVE  ~(intake'[g].year = intake'[k].year /\ intake'[g].number = intake'[k].number)
      <4>0. c.phase \in Sending => c.year = y /\ c.number = number
        BY <1>i, <2>c DEF Sending
      <4>1. CASE g # h /\ k # h
        BY <1>t, <2>12, <3>5, <4>1 DEF IntakeApart
      <4>2. CASE g = h
        BY <2>12, <3>4, <3>5, <4>0, <4>2
      <4>3. CASE k = h
        BY <2>12, <3>4, <3>5, <4>0, <4>3
      <4> QED BY <4>1, <4>2, <4>3
    <3> QED BY <3>2, <3>3, <3>5 DEF IntakeApart
  <2>15. Len(files') <= MaxFiles
    BY <2>6, <2>7
  <2> QED BY <1>t, <2>1, <2>6, <2>8, <2>9, <2>11, <2>12, <2>13, <2>14, <2>15 DEF IntakeInv
<1>4. ASSUME NEW h \in Handlers, SendMail(h) PROVE IntakeInv'
  <2>1. PICK t \in intake[h].tutors, result \in {"sent", "failed", "skipped"} :
          LET c    == [intake[h] EXCEPT !.tutors = @ \ {t}]
              mail == [year |-> c.year, number |-> c.number, to |-> t,
                       nth |-> Cardinality(LettersFor(c.year, c.number, t)) + 1]
          IN
          /\ Committed(intake[h])
          /\ letters' = IF result = "sent" THEN letters \cup {mail} ELSE letters
          /\ IntakeGoes(h, IF result = "skipped" THEN NextMail(c)
                           ELSE [c EXCEPT !.phase = result, !.to = t])
          /\ UNCHANGED <<year, intakeTables, yearLock>>
    BY <1>4 DEF SendMail
  <2> DEFINE y == intake[h].year  number == intake[h].number  left == intake[h].tutors \ {t}
             c == [intake[h] EXCEPT !.tutors = left]
             mail == [year |-> c.year, number |-> c.number, to |-> t,
                      nth |-> Cardinality(LettersFor(c.year, c.number, t)) + 1]
             d == IF result = "skipped" THEN NextMail(c) ELSE [c EXCEPT !.phase = result, !.to = t]
  <2>2. intake[h].phase = "mail" /\ intake[h] \in Intake /\ intake[h].tutors \subseteq Tutors /\ t \in Tutors
    BY <1>t, <2>1 DEF Committed, Intake
  <2>3. /\ letters' = (IF result = "sent" THEN letters \cup {mail} ELSE letters)
        /\ intake' = [intake EXCEPT ![h] = d]
        /\ UNCHANGED <<year, sequences, files, tutorLinks, yearLock>>
    BY <2>1
  <2>4. PICK f \in 1..Len(files) : /\ files[f].year = y /\ files[f].number = number
                                   /\ intake[h].tutors \subseteq DOMAIN files[f].notices
    BY <1>t, <2>2 DEF IntakeKnows, Sending
  <2>5. \A l \in letters : l.year = y /\ l.number = number => l.to \notin intake[h].tutors
    BY <1>t, <2>2 DEF IntakeKnows, Sending
  <2>6. /\ c \in Intake /\ c.year = y /\ c.number = number /\ c.tutors = left /\ c.phase = "mail"
        /\ left \subseteq Tutors
    BY <2>2 DEF Intake
  <2>y. y = intake[h].year /\ number = intake[h].number /\ left = intake[h].tutors \ {t}
    OBVIOUS
  <2> HIDE DEF c, y, number, left
  <2>7. mail.year = y /\ mail.number = number /\ mail.to = t /\ mail.nth \in Nat
    <3>1. LettersFor(c.year, c.number, t) = {}
      BY <2>5, <2>6 DEF LettersFor
    <3>2. Cardinality(LettersFor(c.year, c.number, t)) + 1 \in Nat
      BY <3>1, FS_EmptySet
    <3> QED BY <2>6, <3>2
  <2>8. /\ d \in Intake
        /\ \/ d = NoIntake
           \/ /\ d.phase \in Sending /\ d.year = y /\ d.number = number /\ d.tutors = left
              /\ d.phase \in {"sent", "failed"} => d.to = t
              /\ d.phase = "sent" => result = "sent"
    <3>1. CASE result = "skipped"
      BY <1>i, <2>6, <3>1 DEF NextMail, Intake, Sending
    <3>2. CASE result # "skipped"
      BY <2>1, <2>2, <2>6, <3>2 DEF Intake, Sending
    <3> QED BY <3>1, <3>2
  <2> HIDE DEF mail, d
  <2>9. \A l \in letters' : l \in letters \/ (l = mail /\ result = "sent")
    BY <2>3
  <2>10. LettersFit(files, letters')
    <3>1. \A l \in letters' : /\ l.to \in Tutors /\ l.nth \in Nat
                              /\ \E g \in 1..Len(files) : /\ files[g].year = l.year /\ files[g].number = l.number
                                                         /\ l.to \in DOMAIN files[g].notices
      BY <1>t, <2>2, <2>4, <2>7, <2>9 DEF LettersFit
    <3>2. \A k, l \in letters' : k.year = l.year /\ k.number = l.number /\ k.to = l.to => k = l
      <4>1. \A l \in letters : ~(l.year = y /\ l.number = number /\ l.to = t)
        BY <2>5
      <4>2. \A k, l \in letters : k.year = l.year /\ k.number = l.number /\ k.to = l.to => k = l
        BY <1>t DEF LettersFit
      <4> QED BY <2>7, <2>9, <4>1, <4>2
    <3>3. letters \subseteq letters'
      BY <2>3
    <3>4. \A g \in 1..Len(files) : \A u \in DOMAIN files[g].notices :
            files[g].notices[u].email = "SENT" =>
              Mailed(letters', files[g].year, files[g].number, u) # {}
      BY <1>t, <3>3 DEF LettersFit, Mailed
    <3> QED BY <3>1, <3>2, <3>4 DEF LettersFit
  <2>11. /\ intake'[h] = d /\ \A g \in Handlers \ {h} : intake'[g] = intake[g]
         /\ intake' \in [Handlers -> Intake]
    BY <1>t, <2>3, <2>8
  <2>12. \A g \in Handlers \ {h} : intake[g].phase \in Sending => ~(intake[g].year = y /\ intake[g].number = number)
    BY <1>t, <2>2, <2>y DEF IntakeApart, Sending
  <2>13. ASSUME NEW g \in Handlers PROVE IntakeKnows(files, letters', intake'[g])
    <3>1. CASE g = h
      <4>1. CASE d = NoIntake
        BY <1>i, <2>11, <3>1, <4>1
      <4>2. CASE d # NoIntake
        <5>1. /\ d.phase \in Sending /\ d.year = y /\ d.number = number /\ d.tutors = left
              /\ d.phase \in {"sent", "failed"} => d.to = t
              /\ d.phase = "sent" => result = "sent"
          BY <2>8, <4>2
        <5>2. \E k \in 1..Len(files) : /\ files[k].year = d.year /\ files[k].number = d.number
                                       /\ d.tutors \subseteq DOMAIN files[k].notices
                                       /\ d.phase \in {"sent", "failed"} => d.to \in DOMAIN files[k].notices
          BY <2>4, <2>y, <5>1
        <5>3. \A l \in letters' : l.year = d.year /\ l.number = d.number => l.to \notin d.tutors
          BY <2>5, <2>7, <2>9, <2>y, <5>1
        <5>4. d.phase = "sent" => \E l \in letters' : l.year = d.year /\ l.number = d.number /\ l.to = d.to
          BY <2>3, <2>7, <5>1
        <5>5. d.year \in Years
          BY <1>t, <2>2, <2>y, <5>1 DEF IntakeKnows
        <5>6. d.phase # "idle" /\ d.phase # "save" /\ d.phase # "read"
          BY <5>1 DEF Sending
        <5> QED BY <2>11, <3>1, <5>1, <5>2, <5>3, <5>4, <5>5, <5>6 DEF IntakeKnows
      <4> QED BY <4>1, <4>2
    <3>2. CASE g # h
      <4>1. IntakeKnows(files, letters, intake[g]) /\ intake'[g] = intake[g]
        BY <1>t, <2>11, <3>2
      <4>2. intake[g].phase \in Sending => ~(intake[g].year = y /\ intake[g].number = number)
        BY <2>12, <3>2
      <4>3. intake[g].phase \in Sending => \A l \in letters' :
              l.year = intake[g].year /\ l.number = intake[g].number => l.to \notin intake[g].tutors
        BY <2>7, <2>9, <4>1, <4>2 DEF IntakeKnows
      <4>4. letters \subseteq letters'
        BY <2>3
      <4> QED BY <4>1, <4>3, <4>4 DEF IntakeKnows
    <3> QED BY <3>1, <3>2
  <2>14. IntakeApart(yearLock', intake')
    <3>1. d.phase # "save"
      BY <1>i, <2>8 DEF Sending
    <3>2. d.phase \in Sending => intake[h].phase \in Sending /\ d.year = intake[h].year /\ d.number = intake[h].number
      BY <1>i, <2>2, <2>8, <2>y DEF Sending
    <3> QED BY <2>2, <2>3, <3>1, <3>2, IntakeStaysApart
  <2> QED BY <1>t, <2>3, <2>10, <2>11, <2>13, <2>14 DEF IntakeInv
\* The UPDATE of the status of a notice, or of its receipt.
<1>n. ASSUME NEW h \in Handlers, intake[h].phase \in Sending \cup {"read"},
             \E g \in 1..Len(files) : /\ files[g].year = intake[h].year /\ files[g].number = intake[h].number
                                      /\ intake[h].to \in DOMAIN files[g].notices
      PROVE  \E g \in 1..Len(files) : 
               /\ g = File(intake[h].year, intake[h].number)
               /\ files[g].year = intake[h].year /\ files[g].number = intake[h].number
               /\ intake[h].to \in DOMAIN files[g].notices
               /\ files[g].notices[intake[h].to] \in Notice
               /\ files[g] = [files[g] EXCEPT !.notices = files[g].notices]
  <2>1. PICK g \in 1..Len(files) : /\ files[g].year = intake[h].year /\ files[g].number = intake[h].number
                                   /\ intake[h].to \in DOMAIN files[g].notices
    BY <1>n
  <2>2. File(intake[h].year, intake[h].number) = g
    BY <1>t, <2>1, FileFound
  <2>3. files[g] \in CaseFile
    BY <1>t
  <2>4. PICK T \in SUBSET Tutors : files[g].notices \in Notices(T)
    BY <2>3 DEF CaseFile
  <2>5. files[g].notices[intake[h].to] \in Notice
    BY <2>1, <2>4 DEF Notices
  <2>6. files[g] = [files[g] EXCEPT !.notices = files[g].notices]
    BY <2>3 DEF CaseFile
  <2> QED BY <2>1, <2>2, <2>5, <2>6
<1>5. ASSUME NEW h \in Handlers, RecordMail(h) PROVE IntakeInv'
  <2> DEFINE f == File(intake[h].year, intake[h].number)  t == intake[h].to  status == StatusFor(intake[h])
             d == NextMail(intake[h])
  <2>1. /\ intake[h].phase \in {"sent", "failed"}
        /\ files' = [files EXCEPT ![f].notices[t].email = status]
        /\ intake' = [intake EXCEPT ![h] = d]
        /\ UNCHANGED <<year, sequences, tutorLinks, yearLock, letters>>
    BY <1>5 DEF RecordMail
  <2>k. IntakeKnows(files, letters, intake[h]) /\ intake[h] \in Intake
    BY <1>t
  <2>2. \E g \in 1..Len(files) : /\ files[g].year = intake[h].year /\ files[g].number = intake[h].number
                                 /\ t \in DOMAIN files[g].notices
    BY <2>k, <2>1 DEF IntakeKnows, Sending
  <2>3. /\ f \in 1..Len(files) /\ files[f].year = intake[h].year /\ files[f].number = intake[h].number
        /\ t \in DOMAIN files[f].notices /\ files[f].notices[t] \in Notice
    BY <1>n, <2>1, <2>2 DEF Sending
  <2>4. status \in {"SENT", "FAILED"} /\ (status = "SENT" => intake[h].phase = "sent")
    BY DEF StatusFor
  <2>5. /\ d \in Intake /\ d.phase \in {"idle", "mail"}
        /\ d = NoIntake \/ /\ d.phase = "mail" /\ d.year = intake[h].year /\ d.number = intake[h].number
                           /\ d.tutors = intake[h].tutors
    BY <1>i, <2>k DEF NextMail, Intake
  <2>6. IntakeKnows(files, letters, d)
    <3>1. CASE d = NoIntake
      BY <1>i, <3>1
    <3>2. CASE /\ d.phase = "mail" /\ d.year = intake[h].year /\ d.number = intake[h].number
               /\ d.tutors = intake[h].tutors
      <4> HIDE DEF d
      <4> QED BY <2>k, <2>1, <3>2 DEF IntakeKnows, Sending
    <3> QED BY <2>5, <3>1, <3>2
  <2>7. d.phase # "save" /\ (d.phase \in Sending =>
          /\ intake[h].phase \in Sending /\ d.year = intake[h].year /\ d.number = intake[h].number)
    BY <1>i, <2>1, <2>5 DEF Sending
  <2> DEFINE note == [files[f].notices[t] EXCEPT !.email = status]
             file == [files[f] EXCEPT !.notices = [files[f].notices EXCEPT ![t] = note]]
  <2>8. note \in Notice /\ note.email = status /\ note.read = files[f].notices[t].read
    BY <2>3, <2>4 DEF Notice
  <2>9. files' = [files EXCEPT ![f] = file]
    BY <2>1
  <2>s. \A l : Mailed(letters, intake[h].year, intake[h].number, l) = Mailed(letters, files[f].year, files[f].number, l)
    BY <2>3
  <2>e. file = [files[f] EXCEPT !.notices = [files[f].notices EXCEPT ![t] = note]]
    OBVIOUS
  <2> HIDE DEF f, t, status, d, note, file
  <2>10. /\ files' \in Seq(CaseFile) /\ Len(files') = Len(files)
         /\ \A g \in 1..Len(files) : /\ files'[g].year = files[g].year
                                      /\ files'[g].number = files[g].number
                                      /\ DOMAIN files'[g].notices = DOMAIN files[g].notices
         /\ \A g \in 1..Len(files) : \A u \in DOMAIN files[g].notices :
              files'[g].notices[u] = IF g = f /\ u = t THEN note ELSE files[g].notices[u]
         /\ NumbersFit(files') /\ \A rows : RowsFit(rows, files) => RowsFit(rows, files')
         /\ \A mails, c : IntakeKnows(files, mails, c) => IntakeKnows(files', mails, c)
    BY <2>3, <2>8, <2>9, <2>e, NoticeChanges
  <2>11. LettersFit(files', letters)
    <3>1. \A l \in letters : \E g \in 1..Len(files) : /\ files[g].year = l.year /\ files[g].number = l.number
                                                      /\ l.to \in DOMAIN files[g].notices
      BY <1>t DEF LettersFit
    <3>2. \A l \in letters : \E g \in 1..Len(files') : /\ files'[g].year = l.year /\ files'[g].number = l.number
                                                      /\ l.to \in DOMAIN files'[g].notices
      BY <2>10, <3>1
    <3>3. \A l \in letters : l.to \in Tutors /\ l.nth \in Nat
      BY <1>t DEF LettersFit
    <3>4. \A k, l \in letters : k.year = l.year /\ k.number = l.number /\ k.to = l.to => k = l
      BY <1>t DEF LettersFit
    <3>5. status = "SENT" => Mailed(letters, files[f].year, files[f].number, t) # {}
      <4>1. SUFFICES ASSUME status = "SENT" PROVE Mailed(letters, files[f].year, files[f].number, t) # {}
        OBVIOUS
      <4>2. PICK l \in letters : l.year = intake[h].year /\ l.number = intake[h].number /\ l.to = intake[h].to
        BY <2>k, <2>4, <4>1 DEF IntakeKnows
      <4> QED BY <2>3, <4>2 DEF Mailed, t
    <3>6. \A g \in 1..Len(files) : \A u \in DOMAIN files[g].notices :
            files'[g].notices[u].email = "SENT" =>
              Mailed(letters, files[g].year, files[g].number, u) # {}
      <4> TAKE g \in 1..Len(files)
      <4> TAKE u \in DOMAIN files[g].notices
      <4>1. CASE g = f /\ u = t
        BY <2>8, <2>10, <3>5, <4>1
      <4>2. CASE ~(g = f /\ u = t)
        <5>1. files'[g].notices[u] = files[g].notices[u]
          BY <2>10, <4>2
        <5>2. files[g].notices[u].email = "SENT" => Mailed(letters, files[g].year, files[g].number, u) # {}
          BY <1>t DEF LettersFit
        <5> QED BY <5>1, <5>2
      <4> QED BY <4>1, <4>2
    <3>7. \A g \in 1..Len(files') : \A u \in DOMAIN files'[g].notices :
            files'[g].notices[u].email = "SENT" =>
              Mailed(letters, files'[g].year, files'[g].number, u) # {}
      BY <2>10, <3>6
    <3> QED BY <3>2, <3>3, <3>4, <3>7 DEF LettersFit
  <2>12. /\ intake'[h] = d /\ \A g \in Handlers \ {h} : intake'[g] = intake[g]
         /\ intake' \in [Handlers -> Intake]
    BY <1>t, <2>1, <2>5
  <2>13. \A g \in Handlers : IntakeKnows(files', letters, intake'[g])
    BY <1>t, <2>6, <2>10, <2>12
  <2>14. IntakeApart(yearLock', intake')
    <3>1. intake[h].phase # "save"
      BY <2>1
    <3> QED BY <2>1, <2>7, <3>1, IntakeStaysApart
  <2> QED BY <1>t, <2>1, <2>10, <2>11, <2>12, <2>13, <2>14 DEF IntakeInv
<1>6. ASSUME NEW h \in Handlers, RecordingFails(h) PROVE IntakeInv'
  <2> DEFINE c == [intake[h] EXCEPT !.phase = "failed"]
  <2>1. /\ intake[h].phase = "sent" /\ intake' = [intake EXCEPT ![h] = c]
        /\ UNCHANGED <<year, sequences, files, tutorLinks, yearLock, letters>>
    BY <1>6 DEF RecordingFails
  <2>2. IntakeKnows(files, letters, intake[h]) /\ intake[h] \in Intake
    BY <1>t
  <2>3. /\ c \in Intake /\ c.phase = "failed" /\ c.year = intake[h].year /\ c.number = intake[h].number
        /\ c.tutors = intake[h].tutors /\ c.to = intake[h].to
    BY <2>2 DEF Intake
  <2> HIDE DEF c
  <2>4. IntakeKnows(files, letters, c)
    BY <2>1, <2>2, <2>3 DEF IntakeKnows, Sending
  <2> QED BY <1>g, <2>1, <2>3, <2>4 DEF Sending
<1>7. ASSUME NEW h \in Handlers, FindUnread(h) PROVE IntakeInv'
  <2>1. PICK t \in tutorLinks, f \in 1..Len(files) :
          /\ intake[h].phase = "idle"
          /\ t \in DOMAIN files[f].notices /\ ~Present(files[f].notices[t].read)
          /\ IntakeGoes(h, [NoIntake EXCEPT !.phase = "read", !.year = files[f].year,
                                            !.number = files[f].number, !.to = t])
          /\ UNCHANGED <<year, intakeTables, yearLock, letters>>
    BY <1>7 DEF FindUnread
  <2> DEFINE y == files[f].year  number == files[f].number
             c == [NoIntake EXCEPT !.phase = "read", !.year = y, !.number = number, !.to = t]
  <2>2. y \in Years /\ number \in 0..(MaxFiles + 1) /\ t \in Tutors
    <3>1. files[f] \in CaseFile
      BY <1>t
    <3> QED BY <1>t, <2>1, <3>1 DEF CaseFile
  <2>3. intake' = [intake EXCEPT ![h] = c]
    BY <2>1
  <2>y. files[f].year = y /\ files[f].number = number
    OBVIOUS
  <2> HIDE DEF y, number
  <2>4. c \in Intake /\ c.phase = "read" /\ c.year = y /\ c.number = number /\ c.to = t
    BY <1>i, <2>2 DEF Intake
  <2> HIDE DEF c
  <2>5. IntakeKnows(files, letters, c)
    BY <2>1, <2>2, <2>4, <2>y DEF IntakeKnows, Sending
  <2>6. /\ intake[h].phase # "save" /\ yearLock' = yearLock
        /\ UNCHANGED <<year, sequences, files, tutorLinks, letters>>
    BY <2>1
  <2> QED BY <1>g, <2>3, <2>4, <2>5, <2>6 DEF Sending
<1>8. ASSUME NEW h \in Handlers, ConfirmRead(h) PROVE IntakeInv'
  <2> DEFINE f == File(intake[h].year, intake[h].number)  t == intake[h].to
  <2>1. /\ intake[h].phase = "read"
        /\ files' = IF Unread(files[f].notices[t])
                    THEN [files EXCEPT ![f].notices[t].read = h] ELSE files
        /\ intake' = [intake EXCEPT ![h] = NoIntake] /\ yearLock' = [yearLock EXCEPT ![h] = {}]
        /\ UNCHANGED <<year, sequences, tutorLinks, letters>>
    BY <1>8 DEF ConfirmRead
  <2>k. IntakeKnows(files, letters, intake[h])
    BY <1>t
  <2>2. \E g \in 1..Len(files) : /\ files[g].year = intake[h].year /\ files[g].number = intake[h].number
                                 /\ t \in DOMAIN files[g].notices
    BY <2>k, <2>1 DEF IntakeKnows, Sending
  <2>3. /\ f \in 1..Len(files) /\ t \in DOMAIN files[f].notices /\ files[f].notices[t] \in Notice
        /\ files[f] = [files[f] EXCEPT !.notices = files[f].notices]
    BY <1>n, <2>1, <2>2
  <2> DEFINE note == IF Unread(files[f].notices[t]) THEN [files[f].notices[t] EXCEPT !.read = h] ELSE files[f].notices[t]
             file == [files[f] EXCEPT !.notices = [files[f].notices EXCEPT ![t] = note]]
  <2>8. note \in Notice /\ note.email = files[f].notices[t].email
    BY <2>3 DEF Notice
  <2>9. files' = [files EXCEPT ![f] = file]
    <3>1. CASE Unread(files[f].notices[t])
      BY <2>1, <3>1
    <3>2. CASE ~Unread(files[f].notices[t])
      <4>1. files[f] \in CaseFile
        BY <1>t, <2>3
      <4>2. PICK T \in SUBSET Tutors : files[f].notices \in Notices(T)
        BY <4>1 DEF CaseFile
      <4>3. [files[f].notices EXCEPT ![t] = files[f].notices[t]] = files[f].notices
        BY <2>3, <4>2 DEF Notices
      <4>4. file = files[f]
        BY <2>3, <3>2, <4>3
      <4> HIDE DEF file, f
      <4>5. [files EXCEPT ![f] = files[f]] = files
        BY <1>t, <2>3
      <4> QED BY <2>1, <3>2, <4>4, <4>5 DEF f
    <3> QED BY <3>1, <3>2
  <2>e. file = [files[f] EXCEPT !.notices = [files[f].notices EXCEPT ![t] = note]]
    OBVIOUS
  <2> HIDE DEF f, t, note, file
  <2>10. /\ files' \in Seq(CaseFile) /\ Len(files') = Len(files)
         /\ \A g \in 1..Len(files) : /\ files'[g].year = files[g].year
                                      /\ files'[g].number = files[g].number
                                      /\ DOMAIN files'[g].notices = DOMAIN files[g].notices
         /\ \A g \in 1..Len(files) : \A u \in DOMAIN files[g].notices :
              files'[g].notices[u] = IF g = f /\ u = t THEN note ELSE files[g].notices[u]
         /\ NumbersFit(files') /\ \A rows : RowsFit(rows, files) => RowsFit(rows, files')
         /\ \A mails, c : IntakeKnows(files, mails, c) => IntakeKnows(files', mails, c)
    BY <2>3, <2>8, <2>9, <2>e, NoticeChanges
  <2>11. LettersFit(files', letters)
    <3>1. \A l \in letters : \E g \in 1..Len(files) : /\ files[g].year = l.year /\ files[g].number = l.number
                                                      /\ l.to \in DOMAIN files[g].notices
      BY <1>t DEF LettersFit
    <3>2. \A l \in letters : \E g \in 1..Len(files') : /\ files'[g].year = l.year /\ files'[g].number = l.number
                                                      /\ l.to \in DOMAIN files'[g].notices
      BY <2>10, <3>1
    <3>3. \A l \in letters : l.to \in Tutors /\ l.nth \in Nat
      BY <1>t DEF LettersFit
    <3>4. \A k, l \in letters : k.year = l.year /\ k.number = l.number /\ k.to = l.to => k = l
      BY <1>t DEF LettersFit
    <3>5. \A g \in 1..Len(files) : \A u \in DOMAIN files[g].notices :
            files'[g].notices[u].email = files[g].notices[u].email
      BY <2>8, <2>10
    <3>6. \A g \in 1..Len(files') : \A u \in DOMAIN files'[g].notices :
            files'[g].notices[u].email = "SENT" =>
              Mailed(letters, files'[g].year, files'[g].number, u) # {}
      <4> TAKE g \in 1..Len(files')
      <4>1. g \in 1..Len(files) /\ DOMAIN files'[g].notices = DOMAIN files[g].notices
            /\ files'[g].year = files[g].year /\ files'[g].number = files[g].number
        BY <2>10
      <4> TAKE u \in DOMAIN files'[g].notices
      <4>3. u \in DOMAIN files[g].notices
        BY <4>1
      <4>2. files[g].notices[u].email = "SENT" => Mailed(letters, files[g].year, files[g].number, u) # {}
        BY <1>t, <4>1, <4>3 DEF LettersFit
      <4> QED BY <3>5, <4>1, <4>2, <4>3
    <3> QED BY <2>10, <3>2, <3>3, <3>4, <3>6 DEF LettersFit
  <2>12. /\ intake'[h] = NoIntake /\ \A g \in Handlers \ {h} : intake'[g] = intake[g]
         /\ intake' \in [Handlers -> Intake]
    BY <1>t, <1>i, <2>1
  <2>13. \A g \in Handlers : IntakeKnows(files', letters, intake'[g])
    BY <1>t, <1>i, <2>10, <2>12
  <2>14. IntakeApart(yearLock', intake') /\ yearLock' \in [Handlers -> SUBSET Years]
    BY <1>i, <2>1, IntakeStaysApart DEF Sending
  <2> QED BY <1>t, <2>1, <2>10, <2>11, <2>12, <2>13, <2>14 DEF IntakeInv
<1>9. ASSUME NEW h \in Handlers, IntakeAborts(h) PROVE IntakeInv'
  <2>1. /\ intake' = [intake EXCEPT ![h] = NoIntake] /\ yearLock' = [yearLock EXCEPT ![h] = {}]
        /\ UNCHANGED <<year, sequences, files, tutorLinks, letters>>
    BY <1>9 DEF IntakeAborts
  <2> QED BY <1>g, <1>i, <2>1 DEF Sending
<1>10. CASE LinkTutor
  BY <1>t, <1>10 DEF LinkTutor, IntakeInv
<1>11. CASE YearPasses
  <2>1. year' \in Years
    BY <1>t, <1>11, IntakeAssumption DEF YearPasses, Years, IntakeAssumption
  <2> QED BY <1>t, <1>11, <2>1 DEF YearPasses, IntakeInv
<1>12. CASE UNCHANGED intakeVars
  BY <1>t, <1>12 DEF intakeVars, IntakeInv
<1> QED BY <1>1, <1>2, <1>3, <1>4, <1>5, <1>6, <1>7, <1>8, <1>9, <1>10, <1>11, <1>12 DEF IntakeNext

\* What the invariant says of the cases.
LEMMA IntakeMeans == IntakeInv => IntakeTypeOK /\ NumbersInOrder /\ LettersAreReal
<1> SUFFICES ASSUME IntakeInv PROVE IntakeTypeOK /\ NumbersInOrder /\ LettersAreReal
  OBVIOUS
<1>t. /\ files \in Seq(CaseFile) /\ Len(files) \in Nat
      /\ NumbersFit(files) /\ LettersFit(files, letters)
      /\ \A h \in Handlers : IntakeKnows(files, letters, intake[h])
  BY IntakeFacts
<1>0. ASSUME NEW f \in 1..Len(files)
      PROVE  /\ files[f].year \in Years /\ files[f].number \in 1..MaxFiles
             /\ DOMAIN files[f].notices \subseteq Tutors
             /\ \A t \in DOMAIN files[f].notices : files[f].notices[t] \in Notice
  <2>1. files[f] \in CaseFile
    BY <1>t
  <2>2. PICK T \in SUBSET Tutors : files[f].notices \in Notices(T)
    BY <2>1 DEF CaseFile
  <2> QED BY <2>1, <2>2 DEF CaseFile, Notices
<1>1. IntakeTypeOK
  <2>1. \A l \in letters : l.to \in Tutors /\ l.nth \in Nat
    BY <1>t DEF LettersFit
  <2> QED BY <1>0, <2>1, IntakeFacts DEF IntakeTypeOK
<1>2. NumbersInOrder
  <2>1. \A n, y : FiledUpTo(n, y) = FiledIn(files, n, y)
    BY DEF FiledUpTo, FiledIn
  <2> QED BY <1>t, <2>1 DEF NumbersInOrder, NumbersFit, IntakeKnows, FiledCount
<1>3. LettersAreReal
  <2>1. \A l \in letters : \E f \in 1..Len(files) :
          files[f].year = l.year /\ files[f].number = l.number /\ l.to \in DOMAIN files[f].notices
    BY <1>t DEF LettersFit
  <2>2. ASSUME NEW f \in 1..Len(files), NEW t \in DOMAIN files[f].notices
        PROVE  /\ Cardinality(LettersFor(files[f].year, files[f].number, t)) <= 1
               /\ files[f].notices[t].email = "SENT" => LettersFor(files[f].year, files[f].number, t) # {}
    <3> DEFINE sent == LettersFor(files[f].year, files[f].number, t)
    <3>1. \A k, l \in sent : k = l
      BY <1>t DEF LettersFit, LettersFor
    <3>2. files[f].notices[t].email = "SENT" => sent # {}
      BY <1>t DEF LettersFit, LettersFor, Mailed
    <3> HIDE DEF sent
    <3>3. Cardinality(sent) <= 1
      <4>1. CASE sent = {}
        BY <4>1, FS_EmptySet
      <4>2. CASE sent # {}
        <5>1. PICK l : sent = {l}
          BY <3>1, <4>2
        <5>2. Cardinality({l}) = 1
          BY FS_Singleton
        <5> QED BY <5>1, <5>2
      <4> QED BY <4>1, <4>2
    <3> QED BY <3>2, <3>3 DEF sent
  <2> QED BY <2>1, <2>2 DEF LettersAreReal
<1> QED BY <1>1, <1>2, <1>3

\* A receipt that is there is not written again.
LEMMA IntakeKeepsReceipts ==
  ASSUME IntakeInv, [IntakeNext(Handlers)]_intakeVars,
         NEW f \in 1..Len(files), NEW t \in DOMAIN files[f].notices, Present(files[f].notices[t].read)
  PROVE  files'[f].notices[t].read = files[f].notices[t].read
<1> USE DEF IntakeGoes, IntakeEnds, intakeTables
<1>t. /\ files \in Seq(CaseFile) /\ Len(files) \in Nat
      /\ NumbersFit(files) /\ \A h \in Handlers : IntakeKnows(files, letters, intake[h])
  BY IntakeFacts
<1>1. CASE files' = files
  BY <1>1
<1>2. ASSUME NEW h \in Handlers, SaveCase(h) PROVE files'[f] = files[f]
  BY <1>t, <1>2 DEF SaveCase
<1>f. ASSUME NEW h \in Handlers, intake[h].phase \in {"sent", "failed", "read"}
      PROVE  /\ File(intake[h].year, intake[h].number) \in 1..Len(files)
             /\ intake[h].to \in DOMAIN files[File(intake[h].year, intake[h].number)].notices
  <2>1. PICK g \in 1..Len(files) : /\ files[g].year = intake[h].year /\ files[g].number = intake[h].number
                                   /\ intake[h].to \in DOMAIN files[g].notices
    BY <1>t, <1>f DEF IntakeKnows, Sending
  <2>2. File(intake[h].year, intake[h].number) = g
    BY <1>t, <2>1, FileFound
  <2> QED BY <2>1, <2>2
<1>r. /\ files[f] \in CaseFile /\ files[f].notices[t] \in Notice
      /\ \E T \in SUBSET Tutors : files[f].notices \in Notices(T)
  <2>1. files[f] \in CaseFile
    BY <1>t
  <2>2. PICK T \in SUBSET Tutors : files[f].notices \in Notices(T)
    BY <2>1 DEF CaseFile
  <2> QED BY <2>1, <2>2 DEF Notices
<1>3. ASSUME NEW h \in Handlers, RecordMail(h) PROVE files'[f].notices[t].read = files[f].notices[t].read
  <2> DEFINE g == File(intake[h].year, intake[h].number)  u == intake[h].to  status == StatusFor(intake[h])
  <2>1. files' = [files EXCEPT ![g].notices[u].email = status] /\ intake[h].phase \in {"sent", "failed"}
    BY <1>3 DEF RecordMail
  <2>2. g \in 1..Len(files) /\ u \in DOMAIN files[g].notices
    BY <1>f, <2>1
  <2> HIDE DEF g, u, status
  <2>3. CASE f = g /\ t = u
    BY <1>t, <1>r, <2>1, <2>3 DEF CaseFile, Notices, Notice
  <2>4. CASE ~(f = g /\ t = u)
    BY <1>t, <1>r, <2>1, <2>4 DEF CaseFile, Notices, Notice
  <2> QED BY <2>3, <2>4
<1>4. ASSUME NEW h \in Handlers, ConfirmRead(h) PROVE files'[f].notices[t].read = files[f].notices[t].read
  <2> DEFINE g == File(intake[h].year, intake[h].number)  u == intake[h].to
  <2>1. files' = IF Unread(files[g].notices[u]) THEN [files EXCEPT ![g].notices[u].read = h] ELSE files
    BY <1>4 DEF ConfirmRead
  <2> HIDE DEF g, u
  <2>2. CASE ~Unread(files[g].notices[u])
    BY <1>1, <2>1, <2>2
  <2>3. CASE Unread(files[g].notices[u])
    <3>1. ~(f = g /\ t = u)
      BY <2>3 DEF Unread
    <3> QED BY <1>t, <1>r, <2>1, <2>3, <3>1 DEF CaseFile, Notices, Notice
  <2> QED BY <2>2, <2>3
<1>5. ASSUME NEW h \in Handlers,
             StartCase(h) \/ DrawNumber(h) \/ SendMail(h) \/ RecordingFails(h) \/ FindUnread(h) \/ IntakeAborts(h)
      PROVE  files' = files
  BY <1>5 DEF StartCase, DrawNumber, SendMail, RecordingFails, FindUnread, IntakeAborts
<1>6. LinkTutor \/ YearPasses \/ UNCHANGED intakeVars => files' = files
  BY DEF LinkTutor, YearPasses, intakeVars
<1> QED BY <1>1, <1>2, <1>3, <1>4, <1>5, <1>6 DEF IntakeNext

-----------------------------------------------------------------------------
(* The files of a case and of a justification.                             *)

\* The files of a case and of a justification are named apart.
NameFits(origin, name) == name.origin = IF origin = "justification" THEN "justification" ELSE "case"

\* What an upload knows of itself: only a defense has more files than one.
FileKnows(c) ==
  /\ c.phase = "idle" => c.files = <<>>
  /\ c.phase # "idle" => c.origin \in Origins
  /\ c.phase # "idle" /\ c.origin # "defense" => Len(c.files) + c.pending = 1
  /\ c.phase = "file" => c.pending # 0
  /\ \A i \in 1..Len(c.files) : NameFits(c.origin, c.files[i])

\* What a row or an upload names was written, and is gone only if it was named twice.
FilesStored(list, calls, stored, twice, last) ==
  /\ \A i \in 1..Len(list) : list[i].path \in stored \cup twice
  /\ \A h \in Handlers : WrittenBy(calls[h]) \subseteq stored \cup twice
  /\ \A name \in stored : name.origin = "case" => name.n <= last
  /\ \A name \in twice : name.origin = "justification"

\* A name that two of the rows and uploads have was named twice.
FilesApart(list, calls, twice) ==
  /\ \A i, j \in 1..Len(list) : list[i].path = list[j].path => i = j \/ list[i].path \in twice
  /\ \A i \in 1..Len(list), h \in Handlers : list[i].path \in WrittenBy(calls[h]) => list[i].path \in twice
  /\ \A g, h \in Handlers : g # h => WrittenBy(calls[g]) \cap WrittenBy(calls[h]) \subseteq twice
  /\ \A h \in Handlers : \A i, j \in 1..Len(calls[h].files) :
       calls[h].files[i] = calls[h].files[j] => i = j \/ calls[h].files[i] \in twice

RowNames(list) == \A i \in 1..Len(list) : NameFits(list[i].origin, list[i].path)

EvidenceInv ==
  /\ EvidenceTypeOK
  /\ RowNames(evidence) /\ \A h \in Handlers : FileKnows(uploading[h])
  /\ FilesStored(evidence, uploading, disk, reused, named)
  /\ FilesApart(evidence, uploading, reused)
  /\ OrphansExplained

LEMMA EvidenceFacts ==
  ASSUME EvidenceInv
  PROVE  /\ ms \in 0..LastMs /\ disk \subseteq FileNames /\ named \in 0..MaxNames
         /\ evidence \in Seq(EvidenceRow) /\ uploading \in [Handlers -> Uploading]
         /\ reused \subseteq FileNames /\ leftBehind \subseteq FileNames
         /\ RowNames(evidence)
         /\ FilesStored(evidence, uploading, disk, reused, named)
         /\ FilesApart(evidence, uploading, reused)
         /\ OrphansExplained
         /\ \A h \in Handlers : uploading[h] \in Uploading /\ FileKnows(uploading[h])
  BY DEF EvidenceInv, EvidenceTypeOK

LEMMA NotUploadingFits ==
  /\ NotUploading \in Uploading /\ FileKnows(NotUploading)
  /\ NotUploading.phase = "idle" /\ NotUploading.files = <<>> /\ WrittenBy(NotUploading) = {}
<1>1. /\ NotUploading.phase = "idle" /\ NotUploading.files = <<>> /\ Len(<<>>) = 0
      /\ NotUploading.pending = 0 /\ NotUploading.origin = None
  BY DEF NotUploading
<1>2. WrittenBy(NotUploading) = {}
  BY <1>1 DEF WrittenBy
<1>3. 0 \in 0..MaxDefenseFiles /\ <<>> \in Seq(FileNames)
  BY EvidenceAssumption
<1>4. NotUploading \in Uploading
  BY <1>3 DEF NotUploading, Uploading
<1> QED BY <1>1, <1>2, <1>4 DEF FileKnows

LEMMA EvidenceInitFits == EvidenceInit => EvidenceInv
<1> SUFFICES ASSUME EvidenceInit PROVE EvidenceInv
  OBVIOUS
<1>1. /\ ms = 0 /\ disk = {} /\ evidence = <<>> /\ named = 0 /\ reused = {} /\ leftBehind = {}
      /\ Len(evidence) = 0 /\ uploading \in [Handlers -> Uploading]
      /\ \A h \in Handlers : uploading[h] = NotUploading
  BY NotUploadingFits DEF EvidenceInit
<1>2. EvidenceTypeOK
  BY <1>1, EvidenceAssumption DEF EvidenceTypeOK
<1>3. RowNames(evidence) /\ \A h \in Handlers : FileKnows(uploading[h])
  BY <1>1, NotUploadingFits DEF RowNames
<1>4. \A h \in Handlers : WrittenBy(uploading[h]) = {} /\ Len(uploading[h].files) = 0
  BY <1>1, NotUploadingFits
<1>5. FilesStored(evidence, uploading, disk, reused, named)
  BY <1>1, <1>4 DEF FilesStored
<1>6. FilesApart(evidence, uploading, reused)
  BY <1>1, <1>4 DEF FilesApart
<1>7. OrphansExplained
  BY <1>1 DEF OrphansExplained
<1> QED BY <1>2, <1>3, <1>5, <1>6, <1>7 DEF EvidenceInv

LEMMA NamesFit ==
  ASSUME EvidenceInv, NEW origin \in Origins, origin # "justification" => named < MaxNames
  PROVE  /\ NewName(origin) \in FileNames /\ NameFits(origin, NewName(origin))
         /\ NewName(origin) \in disk => NewName(origin).origin = "justification"
         /\ NewName(origin).origin = "case" => NewName(origin).n = named + 1 /\ origin # "justification"
<1> DEFINE name == NewName(origin)
<1>t. ms \in 0..LastMs /\ named \in 0..MaxNames /\ \A x \in disk : x.origin = "case" => x.n <= named
  BY EvidenceFacts DEF FilesStored
<1>1. CASE origin = "justification"
  <2>1. name = [origin |-> "justification", n |-> ms]
    BY <1>1 DEF NewName
  <2>2. name \in [origin : {"justification"}, n : 0..LastMs] /\ name.origin = "justification"
    BY <1>t, <2>1
  <2> HIDE DEF name
  <2>3. name \in FileNames /\ NameFits(origin, name)
    BY <1>1, <2>2 DEF FileNames, NameFits
  <2> QED BY <2>2, <2>3 DEF name
<1>2. CASE origin # "justification"
  <2>1. name = [origin |-> "case", n |-> named + 1]
    BY <1>2 DEF NewName
  <2>2. named + 1 \in 1..MaxNames
    BY <1>2, <1>t, EvidenceAssumption
  <2>3. name \in [origin : {"case"}, n : 1..MaxNames] /\ name.origin = "case" /\ name.n = named + 1
    BY <2>1, <2>2
  <2> HIDE DEF name
  <2>4. name \in FileNames /\ NameFits(origin, name)
    BY <1>2, <2>3 DEF FileNames, NameFits
  <2>5. name \notin disk
    BY <1>t, <2>3
  <2> QED BY <1>2, <2>3, <2>4, <2>5 DEF name
<1> QED BY <1>1, <1>2

\* A step of one upload that writes no row, and claims no file that it had not.
LEMMA UploadGoesOn ==
  ASSUME EvidenceInv, NEW h \in Handlers, NEW c \in Uploading, FileKnows(c), UploadGoes(h, c),
         c.files = uploading[h].files, UNCHANGED <<ms, disk, evidence, named, reused, leftBehind>>
  PROVE  EvidenceInv'
<1>1. uploading' \in [Handlers -> Uploading]
  BY EvidenceFacts DEF UploadGoes
<1>2. \A g \in Handlers : uploading'[g] = IF g = h THEN c ELSE uploading[g]
  BY EvidenceFacts DEF UploadGoes
<1>3. \A g \in Handlers : uploading'[g].files = uploading[g].files
  BY <1>2
<1>4. \A g \in Handlers : WrittenBy(uploading'[g]) = WrittenBy(uploading[g])
  BY <1>3 DEF WrittenBy
<1>5. \A g \in Handlers : FileKnows(uploading'[g])
  BY EvidenceFacts, <1>2
<1>6. FilesStored(evidence', uploading', disk', reused', named')
  BY EvidenceFacts, <1>4 DEF FilesStored
<1>7. FilesApart(evidence', uploading', reused')
  BY EvidenceFacts, <1>3, <1>4 DEF FilesApart
<1>8. OrphansExplained'
  BY EvidenceFacts, <1>4 DEF OrphansExplained
<1>9. EvidenceTypeOK'
  BY EvidenceFacts, <1>1 DEF EvidenceTypeOK
<1> QED BY EvidenceFacts, <1>5, <1>6, <1>7, <1>8, <1>9 DEF EvidenceInv

\* An upload that ends without its rows: its files are taken back or left behind.
LEMMA UploadGivesUp ==
  ASSUME EvidenceInv, NEW h \in Handlers, UploadEnds(h), UNCHANGED <<ms, evidence, named, reused>>,
         \/ disk' = disk \ WrittenBy(uploading[h]) /\ leftBehind' = leftBehind
         \/ disk' = disk /\ leftBehind' = leftBehind \cup WrittenBy(uploading[h])
  PROVE  EvidenceInv'
<1>t. /\ \A g \in Handlers : uploading[g] \in Uploading /\ WrittenBy(uploading[g]) \subseteq FileNames
      /\ disk' \subseteq disk /\ leftBehind' \subseteq FileNames
  <2>1. \A g \in Handlers : uploading[g] \in Uploading
    BY EvidenceFacts
  <2>2. \A c \in Uploading : WrittenBy(c) \subseteq FileNames
    BY DEF Uploading, WrittenBy
  <2>3. \A g \in Handlers : WrittenBy(uploading[g]) \subseteq FileNames
    BY <2>1, <2>2
  <2>4. leftBehind \subseteq FileNames
    BY EvidenceFacts
  <2> QED BY <2>1, <2>3, <2>4
<1>1. uploading' \in [Handlers -> Uploading]
  BY EvidenceFacts, NotUploadingFits DEF UploadGoes, UploadEnds
<1>2. \A g \in Handlers : uploading'[g] = IF g = h THEN NotUploading ELSE uploading[g]
  BY EvidenceFacts DEF UploadGoes, UploadEnds
<1>3. /\ WrittenBy(uploading'[h]) = {} /\ Len(uploading'[h].files) = 0
      /\ \A g \in Handlers \ {h} : WrittenBy(uploading'[g]) = WrittenBy(uploading[g])
                                   /\ uploading'[g].files = uploading[g].files
  BY <1>2, NotUploadingFits
<1>4. \A g \in Handlers : FileKnows(uploading'[g])
  BY EvidenceFacts, <1>2, NotUploadingFits
<1>5. FilesApart(evidence', uploading', reused')
  BY EvidenceFacts, <1>3 DEF FilesApart
<1>6. FilesStored(evidence', uploading', disk', reused', named')
  <2>1. \A i \in 1..Len(evidence) : evidence[i].path \in disk' \cup reused
    BY EvidenceFacts DEF FilesStored, FilesApart
  <2>2. \A g \in Handlers \ {h} : WrittenBy(uploading[g]) \subseteq disk' \cup reused
    BY EvidenceFacts DEF FilesStored, FilesApart
  <2> QED BY EvidenceFacts, <1>t, <1>3, <2>1, <2>2 DEF FilesStored
<1>7. OrphansExplained'
  <2> SUFFICES ASSUME NEW x \in disk'
               PROVE  \/ \E i \in 1..Len(evidence) : x = evidence[i].path
                      \/ x \in leftBehind' \/ \E g \in Handlers : x \in WrittenBy(uploading'[g])
    BY DEF OrphansExplained
  <2>1. \/ \E i \in 1..Len(evidence) : x = evidence[i].path
        \/ x \in leftBehind \/ \E g \in Handlers : x \in WrittenBy(uploading[g])
    BY <1>t, EvidenceFacts DEF OrphansExplained
  <2>2. CASE x \in WrittenBy(uploading[h])
    BY <2>2
  <2>3. CASE \E g \in Handlers \ {h} : x \in WrittenBy(uploading[g])
    BY <1>3, <2>3
  <2>4. CASE x \in leftBehind
    BY <2>4
  <2> QED BY <2>1, <2>2, <2>3, <2>4
<1>8. EvidenceTypeOK'
  BY EvidenceFacts, <1>1, <1>t DEF EvidenceTypeOK
<1> QED BY EvidenceFacts, <1>4, <1>5, <1>6, <1>7, <1>8 DEF EvidenceInv

LEMMA FileWritten ==
  ASSUME EvidenceInv, NEW h \in Handlers, WriteFile(h)
  PROVE  EvidenceInv'
<1> DEFINE c == uploading[h]
           name == NewName(c.origin)
           fs == Append(c.files, name)
           d == [c EXCEPT !.phase = "row", !.files = fs, !.pending = c.pending - 1]
<1>1. /\ c.phase = "file" /\ (c.origin # "justification" => named < MaxNames)
      /\ disk' = disk \cup {name} /\ reused' = (IF name \in disk THEN reused \cup {name} ELSE reused)
      /\ named' = (IF c.origin = "justification" THEN named ELSE named + 1)
      /\ uploading' = [uploading EXCEPT ![h] = d] /\ UNCHANGED <<ms, evidence, leftBehind>>
  BY DEF WriteFile, UploadGoes
<1>2. /\ c \in Uploading /\ c.origin \in Origins /\ c.pending # 0
      /\ c.origin # "defense" => Len(c.files) + c.pending = 1
      /\ \A i \in 1..Len(c.files) : NameFits(c.origin, c.files[i])
  BY <1>1, EvidenceFacts DEF FileKnows
<1>3. /\ name \in FileNames /\ NameFits(c.origin, name)
      /\ name \in disk => name.origin = "justification"
      /\ name.origin = "case" => name.n = named + 1 /\ c.origin # "justification"
  BY <1>1, <1>2, NamesFit
<1>u. uploading \in [Handlers -> Uploading] /\ c = uploading[h] /\ named \in 0..MaxNames
  BY EvidenceFacts
<1> HIDE DEF c, name
<1>4. c.files \in Seq(FileNames) /\ Len(c.files) \in Nat /\ c.pending - 1 \in 0..MaxDefenseFiles
  BY <1>2, EvidenceAssumption DEF Uploading
<1>5. /\ fs \in Seq(FileNames) /\ Len(fs) = Len(c.files) + 1 /\ fs[Len(c.files) + 1] = name
      /\ \A i \in 1..Len(c.files) : fs[i] = c.files[i]
  BY <1>3, <1>4
<1> HIDE DEF fs
<1>6. /\ d \in Uploading /\ d.phase = "row" /\ d.files = fs /\ d.pending = c.pending - 1
      /\ d.origin = c.origin
  BY <1>2, <1>4, <1>5 DEF Uploading
<1> HIDE DEF d
<1>7. \A i \in 1..Len(fs) : IF i = Len(c.files) + 1 THEN fs[i] = name
                            ELSE i \in 1..Len(c.files) /\ fs[i] = c.files[i]
  BY <1>4, <1>5
<1>8. FileKnows(d)
  <2>1. Len(d.files) + d.pending = Len(c.files) + c.pending
    BY <1>2, <1>4, <1>5, <1>6 DEF Uploading
  <2>2. \A i \in 1..Len(fs) : NameFits(c.origin, fs[i])
    BY <1>2, <1>3, <1>7
  <2> QED BY <1>2, <1>6, <2>1, <2>2 DEF FileKnows
<1>9. WrittenBy(d) = WrittenBy(c) \cup {name}
  <2>1. \A x : x \in WrittenBy(d) <=> \E i \in 1..Len(fs) : x = fs[i]
    BY <1>6 DEF WrittenBy
  <2>2. \A x : x \in WrittenBy(c) <=> \E i \in 1..Len(c.files) : x = c.files[i]
    BY DEF WrittenBy
  <2>3. Len(c.files) + 1 \in 1..Len(fs) /\ \A i \in 1..Len(c.files) : i \in 1..Len(fs)
    BY <1>4, <1>5
  <2>4. \A x : x \in WrittenBy(d) <=> x \in WrittenBy(c) \/ x = name
    BY <1>5, <1>7, <2>1, <2>2, <2>3
  <2> QED BY <2>4
<1>10. \A g \in Handlers : uploading'[g] = IF g = h THEN d ELSE uploading[g]
  BY <1>1, <1>u
<1>11. /\ WrittenBy(uploading'[h]) = WrittenBy(uploading[h]) \cup {name} /\ uploading'[h].files = fs
       /\ \A g \in Handlers \ {h} : WrittenBy(uploading'[g]) = WrittenBy(uploading[g])
                                    /\ uploading'[g].files = uploading[g].files
  BY <1>6, <1>9, <1>10, <1>u
<1>12. reused \subseteq reused' /\ (name \in disk \cup reused => name \in reused') /\ reused' \subseteq reused \cup {name}
  BY <1>1
<1>13. FilesStored(evidence', uploading', disk', reused', named')
  <2>1. \A x \in disk' : x.origin = "case" => x.n <= named'
    BY <1>1, <1>3, <1>u, EvidenceFacts DEF FilesStored, FileNames
  <2>2. \A x \in reused' : x.origin = "justification"
    BY <1>1, <1>3, EvidenceFacts DEF FilesStored
  <2>3. \A i \in 1..Len(evidence) : evidence[i].path \in disk' \cup reused'
    BY <1>1, <1>12, EvidenceFacts DEF FilesStored
  <2>4. \A g \in Handlers : WrittenBy(uploading'[g]) \subseteq disk' \cup reused'
    BY <1>1, <1>11, <1>12, EvidenceFacts DEF FilesStored
  <2> QED BY <1>1, <2>1, <2>2, <2>3, <2>4 DEF FilesStored
<1>14. FilesApart(evidence', uploading', reused')
  <2>1. \A i \in 1..Len(evidence) : evidence[i].path = name => name \in reused'
    BY <1>12, EvidenceFacts DEF FilesStored
  <2>2. \A g \in Handlers : name \in WrittenBy(uploading[g]) => name \in reused'
    BY <1>12, EvidenceFacts DEF FilesStored
  <2>3. \A i \in 1..Len(evidence), g \in Handlers :
          evidence[i].path \in WrittenBy(uploading'[g]) => evidence[i].path \in reused'
    BY <1>11, <1>12, <2>1, EvidenceFacts DEF FilesApart
  <2>4. \A f, g \in Handlers : f # g => WrittenBy(uploading'[f]) \cap WrittenBy(uploading'[g]) \subseteq reused'
    BY <1>11, <1>12, <2>2, EvidenceFacts DEF FilesApart
  <2>5. \A i \in 1..Len(c.files) : c.files[i] \in WrittenBy(uploading[h])
    BY <1>u DEF WrittenBy
  <2>6. \A i, j \in 1..Len(fs) : fs[i] = fs[j] => i = j \/ fs[i] \in reused'
    <3> SUFFICES ASSUME NEW i \in 1..Len(fs), NEW j \in 1..Len(fs), fs[i] = fs[j], i # j PROVE fs[i] \in reused'
      OBVIOUS
    <3>1. CASE i = Len(c.files) + 1 \/ j = Len(c.files) + 1
      BY <1>7, <2>2, <2>5, <3>1
    <3>2. CASE i # Len(c.files) + 1 /\ j # Len(c.files) + 1
      <4>1. /\ i \in 1..Len(c.files) /\ j \in 1..Len(c.files) /\ c.files[i] = c.files[j] /\ fs[i] = c.files[i]
        BY <1>7, <3>2
      <4>2. c.files[i] \in reused
        BY <1>u, <4>1, EvidenceFacts DEF FilesApart
      <4> QED BY <1>12, <4>1, <4>2
    <3> QED BY <3>1, <3>2
  <2>7. \A g \in Handlers : \A i, j \in 1..Len(uploading'[g].files) :
          uploading'[g].files[i] = uploading'[g].files[j] => i = j \/ uploading'[g].files[i] \in reused'
    BY <1>11, <1>12, <2>6, EvidenceFacts DEF FilesApart
  <2>8. \A i, j \in 1..Len(evidence) : evidence[i].path = evidence[j].path => i = j \/ evidence[i].path \in reused'
    BY <1>12, EvidenceFacts DEF FilesApart
  <2> QED BY <1>1, <2>3, <2>4, <2>7, <2>8 DEF FilesApart
<1>15. OrphansExplained'
  BY <1>1, <1>11, EvidenceFacts DEF OrphansExplained
<1>16. EvidenceTypeOK'
  <2>1. uploading' \in [Handlers -> Uploading]
    BY <1>1, <1>6, <1>u
  <2>2. named' \in 0..MaxNames
    BY <1>1, <1>u, EvidenceAssumption
  <2>3. disk' \subseteq FileNames /\ reused' \subseteq FileNames
    BY <1>1, <1>3, EvidenceFacts
  <2> QED BY <1>1, <2>1, <2>2, <2>3, EvidenceFacts DEF EvidenceTypeOK
<1>17. \A g \in Handlers : FileKnows(uploading'[g])
  BY <1>8, <1>10, EvidenceFacts
<1>18. RowNames(evidence')
  BY <1>1, EvidenceFacts
<1> QED BY <1>13, <1>14, <1>15, <1>16, <1>17, <1>18 DEF EvidenceInv

\* The rows that an upload adds.
RowsAdded(list, c, more) ==
  /\ Len(more) = Len(list) + Len(c.files)
  /\ \A i \in 1..Len(list) : i \in 1..Len(more) /\ more[i] = list[i]
  /\ \A i \in 1..Len(more) : i \notin 1..Len(list) =>
       /\ i - Len(list) \in 1..Len(c.files)
       /\ more[i].origin = c.origin /\ more[i].path = c.files[i - Len(list)]
  /\ \A k \in 1..Len(c.files) : Len(list) + k \in 1..Len(more) /\ more[Len(list) + k].path = c.files[k]

LEMMA RowsOfFiles ==
  ASSUME EvidenceInv, NEW h \in Handlers, SaveRows(h)
  PROVE  /\ RowsAdded(evidence, uploading[h], evidence') /\ evidence' \in Seq(EvidenceRow)
         /\ uploading[h].phase # "idle" /\ UploadEnds(h) /\ UNCHANGED <<ms, disk, named, reused, leftBehind>>
<1> DEFINE c == uploading[h]
           new == [i \in 1..Len(c.files) |-> [origin |-> c.origin, path |-> c.files[i]]]
<1>1. /\ c.phase \in {"row", "rest"} /\ evidence' = evidence \o new
      /\ UploadEnds(h) /\ UNCHANGED <<ms, disk, named, reused, leftBehind>>
  BY DEF SaveRows
<1>2. c \in Uploading /\ c.origin \in Origins /\ evidence \in Seq(EvidenceRow)
  BY <1>1, EvidenceFacts DEF FileKnows
<1> HIDE DEF c
<1>3. c.files \in Seq(FileNames) /\ Len(c.files) \in Nat /\ Len(evidence) \in Nat
  BY <1>2 DEF Uploading
<1>4. \A i \in 1..Len(c.files) : [origin |-> c.origin, path |-> c.files[i]] \in EvidenceRow
  BY <1>2, <1>3 DEF EvidenceRow
<1>5. /\ new \in Seq(EvidenceRow) /\ Len(new) = Len(c.files)
      /\ \A i \in 1..Len(c.files) : new[i].origin = c.origin /\ new[i].path = c.files[i]
  BY <1>3, <1>4
<1> HIDE DEF new
<1>6. /\ evidence' \in Seq(EvidenceRow) /\ Len(evidence') = Len(evidence) + Len(new)
      /\ \A i \in 1..Len(evidence) : evidence'[i] = evidence[i]
      /\ \A i \in 1..Len(evidence') : i \notin 1..Len(evidence) => evidence'[i] = new[i - Len(evidence)]
  <2>0. evidence \in Seq(EvidenceRow) /\ new \in Seq(EvidenceRow) /\ evidence' = evidence \o new
    BY <1>1, <1>2, <1>5
  <2>a. evidence \o new \in Seq(EvidenceRow)
    BY <2>0
  <2>b. Len(evidence \o new) = Len(evidence) + Len(new)
    BY <2>0
  <2>1. evidence' \in Seq(EvidenceRow) /\ Len(evidence') = Len(evidence) + Len(new)
    BY <2>0, <2>a, <2>b
  <2>2. \A i \in 1..Len(evidence) : evidence'[i] = evidence[i]
    BY <1>1, <1>2, <1>5
  <2>3. ASSUME NEW i \in 1..Len(evidence'), i \notin 1..Len(evidence)
        PROVE  evidence'[i] = new[i - Len(evidence)]
    <3>1. i \in 1..Len(evidence) + Len(new) /\ i > Len(evidence)
      BY <1>3, <1>5, <2>1, <2>3
    <3> QED BY <1>1, <1>2, <1>5, <3>1
  <2> QED BY <2>1, <2>2, <2>3
<1>7. RowsAdded(evidence, c, evidence')
  <2>1. \A i \in 1..Len(evidence) : i \in 1..Len(evidence')
    BY <1>3, <1>5, <1>6
  <2>2. \A i \in 1..Len(evidence') : i \notin 1..Len(evidence) => i - Len(evidence) \in 1..Len(c.files)
    BY <1>3, <1>5, <1>6
  <2>3. \A k \in 1..Len(c.files) : /\ Len(evidence) + k \in 1..Len(evidence')
                                   /\ Len(evidence) + k \notin 1..Len(evidence)
                                   /\ (Len(evidence) + k) - Len(evidence) = k
    BY <1>3, <1>5, <1>6
  <2>4. \A i \in 1..Len(evidence') : i \notin 1..Len(evidence) =>
          evidence'[i].origin = c.origin /\ evidence'[i].path = c.files[i - Len(evidence)]
    BY <1>5, <1>6, <2>2
  <2>5. \A k \in 1..Len(c.files) : evidence'[Len(evidence) + k].path = c.files[k]
    BY <2>3, <2>4
  <2> QED BY <1>5, <1>6, <2>1, <2>2, <2>3, <2>4, <2>5 DEF RowsAdded
<1> QED BY <1>1, <1>6, <1>7 DEF c

LEMMA RowsSaved ==
  ASSUME EvidenceInv, NEW h \in Handlers, SaveRows(h)
  PROVE  EvidenceInv'
<1> DEFINE c == uploading[h]
<1>1. /\ RowsAdded(evidence, c, evidence') /\ evidence' \in Seq(EvidenceRow)
      /\ uploading' = [uploading EXCEPT ![h] = NotUploading] /\ UNCHANGED <<ms, disk, named, reused, leftBehind>>
  BY RowsOfFiles DEF UploadEnds, UploadGoes
<1>2. \A g \in Handlers : uploading'[g] = IF g = h THEN NotUploading ELSE uploading[g]
  BY <1>1, EvidenceFacts
<1>3. /\ WrittenBy(uploading'[h]) = {} /\ Len(uploading'[h].files) = 0
      /\ \A g \in Handlers \ {h} : WrittenBy(uploading'[g]) = WrittenBy(uploading[g])
                                   /\ uploading'[g].files = uploading[g].files
  BY <1>2, NotUploadingFits
<1>4. /\ \A i \in 1..Len(c.files) : c.files[i] \in WrittenBy(uploading[h])
      /\ \A x \in WrittenBy(uploading[h]) : \E i \in 1..Len(c.files) : x = c.files[i]
  BY DEF WrittenBy
<1>5. \A i \in 1..Len(evidence') :
        \/ i \in 1..Len(evidence) /\ evidence'[i] = evidence[i]
        \/ /\ i \notin 1..Len(evidence) /\ i - Len(evidence) \in 1..Len(c.files)
           /\ evidence'[i].origin = c.origin /\ evidence'[i].path = c.files[i - Len(evidence)]
  BY <1>1 DEF RowsAdded
<1>n. Len(evidence) \in Nat
  BY EvidenceFacts
<1>6. \A i \in 1..Len(evidence') : i \notin 1..Len(evidence) => evidence'[i].path \in WrittenBy(uploading[h])
  BY <1>4, <1>5
<1>7. FileKnows(c)
  BY EvidenceFacts
<1> HIDE DEF c
<1>8. RowNames(evidence')
  BY <1>5, <1>7, EvidenceFacts DEF RowNames, FileKnows
<1>9. FilesStored(evidence', uploading', disk', reused', named')
  <2>1. \A i \in 1..Len(evidence') : evidence'[i].path \in disk \cup reused
    BY <1>5, <1>6, EvidenceFacts DEF FilesStored
  <2>2. \A g \in Handlers : WrittenBy(uploading'[g]) \subseteq disk \cup reused
    BY <1>3, EvidenceFacts DEF FilesStored
  <2> QED BY <1>1, <2>1, <2>2, EvidenceFacts DEF FilesStored
<1>10. FilesApart(evidence', uploading', reused')
  <2>1. \A i, j \in 1..Len(evidence') : evidence'[i].path = evidence'[j].path => i = j \/ evidence'[i].path \in reused
    <3> SUFFICES ASSUME NEW i \in 1..Len(evidence'), NEW j \in 1..Len(evidence'),
                        evidence'[i].path = evidence'[j].path, i # j
                 PROVE  evidence'[i].path \in reused
      OBVIOUS
    <3>1. CASE i \in 1..Len(evidence) /\ j \in 1..Len(evidence)
      BY <1>5, <3>1, EvidenceFacts DEF FilesApart
    <3>2. CASE i \in 1..Len(evidence) /\ j \notin 1..Len(evidence)
      BY <1>5, <1>6, <3>2, EvidenceFacts DEF FilesApart
    <3>3. CASE i \notin 1..Len(evidence) /\ j \in 1..Len(evidence)
      BY <1>5, <1>6, <3>3, EvidenceFacts DEF FilesApart
    <3>4. CASE i \notin 1..Len(evidence) /\ j \notin 1..Len(evidence)
      <4>1. /\ i - Len(evidence) \in 1..Len(c.files) /\ j - Len(evidence) \in 1..Len(c.files)
            /\ c.files[i - Len(evidence)] = c.files[j - Len(evidence)]
            /\ evidence'[i].path = c.files[i - Len(evidence)]
        BY <1>5, <3>4
      <4>2. i - Len(evidence) # j - Len(evidence)
        BY <1>n
      <4> HIDE DEF c
      <4>3. \A k, l \in 1..Len(c.files) : c.files[k] = c.files[l] => k = l \/ c.files[k] \in reused
        BY EvidenceFacts DEF FilesApart, c
      <4> QED BY <4>1, <4>2, <4>3
    <3> QED BY <3>1, <3>2, <3>3, <3>4
  <2>2. \A i \in 1..Len(evidence'), g \in Handlers :
          evidence'[i].path \in WrittenBy(uploading'[g]) => evidence'[i].path \in reused
    <3> SUFFICES ASSUME NEW i \in 1..Len(evidence'), NEW g \in Handlers,
                        evidence'[i].path \in WrittenBy(uploading'[g])
                 PROVE  evidence'[i].path \in reused
      OBVIOUS
    <3>1. g # h /\ evidence'[i].path \in WrittenBy(uploading[g])
      BY <1>3
    <3>2. CASE i \in 1..Len(evidence)
      BY <1>5, <3>1, <3>2, EvidenceFacts DEF FilesApart
    <3>3. CASE i \notin 1..Len(evidence)
      BY <1>6, <3>1, <3>3, EvidenceFacts DEF FilesApart
    <3> QED BY <3>2, <3>3
  <2>3. \A f, g \in Handlers : f # g => WrittenBy(uploading'[f]) \cap WrittenBy(uploading'[g]) \subseteq reused
    BY <1>3, EvidenceFacts DEF FilesApart
  <2>4. \A g \in Handlers : \A i, j \in 1..Len(uploading'[g].files) :
          uploading'[g].files[i] = uploading'[g].files[j] => i = j \/ uploading'[g].files[i] \in reused
    BY <1>3, EvidenceFacts DEF FilesApart
  <2> QED BY <1>1, <2>1, <2>2, <2>3, <2>4 DEF FilesApart
<1>11. OrphansExplained'
  <2>1. ASSUME NEW x \in disk
        PROVE  \/ \E i \in 1..Len(evidence') : x = evidence'[i].path
               \/ x \in leftBehind \/ \E g \in Handlers : x \in WrittenBy(uploading'[g])
    <3>1. \/ \E i \in 1..Len(evidence) : x = evidence[i].path
          \/ x \in leftBehind \/ \E g \in Handlers : x \in WrittenBy(uploading[g])
      BY EvidenceFacts DEF OrphansExplained
    <3>2. CASE \E i \in 1..Len(evidence) : x = evidence[i].path
      BY <1>1, <3>2 DEF RowsAdded
    <3>3. CASE x \in WrittenBy(uploading[h])
      <4>1. PICK k \in 1..Len(c.files) : x = c.files[k]
        BY <1>4, <3>3
      <4>2. Len(evidence) + k \in 1..Len(evidence') /\ evidence'[Len(evidence) + k].path = x
        BY <1>1, <4>1 DEF RowsAdded
      <4> QED BY <4>2
    <3> QED BY <1>3, <3>1, <3>2, <3>3
  <2> QED BY <1>1, <2>1 DEF OrphansExplained
<1>12. EvidenceTypeOK'
  <2>1. uploading' \in [Handlers -> Uploading]
    BY <1>1, EvidenceFacts, NotUploadingFits
  <2> QED BY <1>1, <2>1, EvidenceFacts DEF EvidenceTypeOK
<1>13. \A g \in Handlers : FileKnows(uploading'[g])
  BY <1>2, EvidenceFacts, NotUploadingFits
<1> QED BY <1>8, <1>9, <1>10, <1>11, <1>12, <1>13 DEF EvidenceInv

LEMMA EvidenceStep == EvidenceInv /\ [EvidenceNext(Handlers)]_evidenceVars => EvidenceInv'
<1> SUFFICES ASSUME EvidenceInv, [EvidenceNext(Handlers)]_evidenceVars PROVE EvidenceInv'
  OBVIOUS
<1>k. ASSUME NEW h \in Handlers
      PROVE  uploading[h] \in Uploading /\ FileKnows(uploading[h])
  BY EvidenceFacts
<1>1. ASSUME NEW h \in Handlers, StartUpload(h) PROVE EvidenceInv'
  <2>1. PICK origin \in Origins, n \in 1..MaxDefenseFiles :
          /\ uploading[h].phase = "idle" /\ (origin # "defense" => n = 1)
          /\ UploadGoes(h, [phase |-> "file", origin |-> origin, files |-> <<>>, pending |-> n])
          /\ UNCHANGED <<ms, disk, evidence, named, reused, leftBehind>>
    BY <1>1 DEF StartUpload
  <2> DEFINE c == [phase |-> "file", origin |-> origin, files |-> <<>>, pending |-> n]
  <2>2. n \in 0..MaxDefenseFiles /\ n # 0 /\ <<>> \in Seq(FileNames) /\ Len(<<>>) = 0
    BY EvidenceAssumption
  <2>3. /\ c \in Uploading /\ c.phase = "file" /\ c.origin = origin /\ c.files = <<>> /\ c.pending = n
    BY <2>2 DEF Uploading
  <2>4. UploadGoes(h, c)
    BY <2>1
  <2> HIDE DEF c
  <2>5. FileKnows(c)
    BY <2>1, <2>2, <2>3 DEF FileKnows
  <2>6. c.files = uploading[h].files
    BY <1>k, <2>1, <2>3 DEF FileKnows
  <2> QED BY <2>1, <2>3, <2>4, <2>5, <2>6, UploadGoesOn
<1>2. ASSUME NEW h \in Handlers, WriteFile(h) PROVE EvidenceInv'
  BY <1>2, FileWritten
<1>3. ASSUME NEW h \in Handlers, InsertRow(h) PROVE EvidenceInv'
  <2> DEFINE c == uploading[h]  p == IF c.pending > 0 THEN "file" ELSE "rest"  d == [c EXCEPT !.phase = p]
  <2>1. /\ c.phase = "row" /\ UploadGoes(h, d) /\ UNCHANGED <<ms, disk, evidence, named, reused, leftBehind>>
    BY <1>3 DEF InsertRow
  <2>2. c \in Uploading /\ FileKnows(c)
    BY <1>k
  <2>3. p \in {"file", "rest"} /\ (p = "file" => c.pending # 0)
    BY <2>2 DEF Uploading
  <2>c. c.files = uploading[h].files
    OBVIOUS
  <2> HIDE DEF c, p
  <2>4. d \in Uploading /\ d.phase = p /\ d.origin = c.origin /\ d.files = c.files /\ d.pending = c.pending
    BY <2>2, <2>3 DEF Uploading
  <2> HIDE DEF d
  <2>5. FileKnows(d)
    BY <2>1, <2>2, <2>3, <2>4 DEF FileKnows
  <2> QED BY <2>1, <2>4, <2>5, <2>c, UploadGoesOn
<1>4. ASSUME NEW h \in Handlers, SaveRows(h) PROVE EvidenceInv'
  BY <1>4, RowsSaved
<1>5. ASSUME NEW h \in Handlers, UploadFails(h) PROVE EvidenceInv'
  <2>1. /\ UploadEnds(h) /\ UNCHANGED <<ms, evidence, named, reused>>
        /\ disk' = disk \ TakenBack(uploading[h])
        /\ leftBehind' = (IF uploading[h].origin = "receipt" /\ uploading[h].phase = "rest"
                          THEN leftBehind \cup WrittenBy(uploading[h]) ELSE leftBehind)
    BY <1>5 DEF UploadFails
  <2>2. CASE uploading[h].origin = "receipt" /\ uploading[h].phase = "rest"
    <3>1. disk' = disk /\ leftBehind' = leftBehind \cup WrittenBy(uploading[h])
      BY <2>1, <2>2 DEF TakenBack
    <3> QED BY <2>1, <3>1, UploadGivesUp
  <2>3. CASE ~(uploading[h].origin = "receipt" /\ uploading[h].phase = "rest")
    <3>1. disk' = disk \ WrittenBy(uploading[h]) /\ leftBehind' = leftBehind
      BY <2>1, <2>3 DEF TakenBack
    <3> QED BY <2>1, <3>1, UploadGivesUp
  <2> QED BY <2>2, <2>3
<1>6. ASSUME NEW h \in Handlers, UploadDies(h) PROVE EvidenceInv'
  <2>1. /\ UploadEnds(h) /\ UNCHANGED <<ms, evidence, named, reused>>
        /\ disk' = disk /\ leftBehind' = leftBehind \cup WrittenBy(uploading[h])
    BY <1>6 DEF UploadDies
  <2> QED BY <2>1, UploadGivesUp
<1>7. CASE MsPasses
  <2>1. ms' \in 0..LastMs /\ UNCHANGED <<disk, evidence, named, uploading, reused, leftBehind>>
    BY <1>7, EvidenceFacts, EvidenceAssumption DEF MsPasses
  <2>2. EvidenceTypeOK'
    BY <2>1, EvidenceFacts DEF EvidenceTypeOK
  <2>3. OrphansExplained'
    BY <2>1, EvidenceFacts DEF OrphansExplained
  <2> QED BY <2>1, <2>2, <2>3 DEF EvidenceInv
<1>8. CASE UNCHANGED evidenceVars
  <2>1. UNCHANGED <<ms, disk, evidence, named, uploading, reused, leftBehind>>
    BY <1>8 DEF evidenceVars
  <2>2. EvidenceTypeOK'
    BY <2>1, EvidenceFacts DEF EvidenceTypeOK
  <2>3. OrphansExplained'
    BY <2>1, EvidenceFacts DEF OrphansExplained
  <2> QED BY <2>1, <2>2, <2>3 DEF EvidenceInv
<1> QED BY <1>1, <1>2, <1>3, <1>4, <1>5, <1>6, <1>7, <1>8 DEF EvidenceNext

LEMMA EvidenceMeans == EvidenceInv => EvidenceTypeOK /\ RowsHaveFiles /\ OrphansExplained
<1> SUFFICES ASSUME EvidenceInv PROVE RowsHaveFiles
  BY DEF EvidenceInv
<1>1. ASSUME NEW i \in RowsOf(Origins \ {"justification"}), NEW j \in RowsOf(Origins \ {"justification"}),
             evidence[i].path = evidence[j].path
      PROVE  i = j
  <2>1. i \in 1..Len(evidence) /\ j \in 1..Len(evidence) /\ evidence[i].origin # "justification"
    BY DEF RowsOf
  <2>2. evidence[i].path.origin = "case"
    BY <2>1, EvidenceFacts DEF RowNames, NameFits
  <2>3. evidence[i].path \notin reused
    BY <2>2, EvidenceFacts DEF FilesStored
  <2> QED BY <1>1, <2>1, <2>3, EvidenceFacts DEF FilesApart
<1>2. /\ \A i \in 1..Len(evidence) : evidence[i].path \in disk \cup reused
      /\ \A name \in reused : name.origin = "justification"
  BY EvidenceFacts DEF FilesStored
<1> QED BY <1>1, <1>2 DEF RowsHaveFiles

-----------------------------------------------------------------------------
(* The limit of the evidence uploaded to a case.                           *)
ReportsIn(list) == {i \in 1..Len(list) : list[i].origin = "report"}

\* They found room for their file.
Reporting(H, calls) == {h \in H : calls[h].phase # "idle" /\ calls[h].origin = "report"}

UploadLimits(H) ==
  Within(MaxEvidence + Cardinality(H) - 1, ReportsIn(evidence), Reporting(H, uploading))

LEMMA RoomOfUploads ==
  ASSUME NEW H, H # {}, IsFiniteSet(H)
  PROVE  /\ Cardinality(H) \in Nat /\ Cardinality(H) >= 1
         /\ MaxEvidence + Cardinality(H) - 1 \in Int /\ MaxEvidence \in Nat
<1>1. Cardinality(H) \in Nat /\ Cardinality(H) # 0
  BY FS_CardinalityType, FS_EmptySet
<1> QED BY <1>1, EvidenceAssumption

LEMMA UploadsInit ==
  ASSUME NEW H \in SUBSET Handlers, H # {}, IsFiniteSet(H), EvidenceInit
  PROVE  UploadLimits(H)
<1> DEFINE none == {}
<1>1. ReportsIn(evidence) = none /\ Reporting(H, uploading) = none
  BY NotUploadingFits DEF EvidenceInit, ReportsIn, Reporting
<1>2. IsFiniteSet(none) /\ Cardinality(none) = 0
  BY FS_EmptySet
<1> HIDE DEF none
<1> QED BY <1>1, <1>2, RoomOfUploads DEF UploadLimits, Within

LEMMA UploadsStep ==
  ASSUME NEW H \in SUBSET Handlers, H # {}, IsFiniteSet(H), EvidenceInv, UploadLimits(H),
         [EvidenceNext(H)]_evidenceVars
  PROVE  UploadLimits(H)'
<1> DEFINE n == MaxEvidence + Cardinality(H) - 1
<1>n. n \in Int
  BY RoomOfUploads
<1>w. Within(n, ReportsIn(evidence), Reporting(H, uploading))
  BY DEF UploadLimits
<1>c. Cardinality(H)' = Cardinality(H)
  OBVIOUS
<1>q. ASSUME Within(n, ReportsIn(evidence'), Reporting(H, uploading')) PROVE UploadLimits(H)'
  BY <1>q DEF UploadLimits
<1> HIDE DEF n
\* Rows stay, and nobody finds room who had not.
<1>s. ASSUME evidence' = evidence, Reporting(H, uploading') \subseteq Reporting(H, uploading) PROVE UploadLimits(H)'
  BY <1>n, <1>q, <1>s, <1>w, WithinFalls
<1>k. ASSUME NEW h \in H, NEW c, UploadGoes(h, c), evidence' = evidence,
             c.phase = "idle" \/ c.origin # "report" \/ (uploading[h].phase # "idle" /\ c.origin = uploading[h].origin)
      PROVE  UploadLimits(H)'
  <2>1. \A g \in H : uploading'[g] = IF g = h THEN c ELSE uploading[g]
    BY <1>k, EvidenceFacts DEF UploadGoes
  <2>2. Reporting(H, uploading') \subseteq Reporting(H, uploading)
    BY <1>k, <2>1 DEF Reporting
  <2> QED BY <1>k, <1>s, <2>2
<1>1. ASSUME NEW h \in H, StartUpload(h) PROVE UploadLimits(H)'
  <2>1. PICK origin \in Origins, m \in 1..MaxDefenseFiles :
          /\ (origin = "report" => BelowLimit) /\ evidence' = evidence
          /\ UploadGoes(h, [phase |-> "file", origin |-> origin, files |-> <<>>, pending |-> m])
    BY <1>1 DEF StartUpload
  <2> DEFINE c == [phase |-> "file", origin |-> origin, files |-> <<>>, pending |-> m]
  <2>2. c.origin = origin /\ UploadGoes(h, c)
    BY <2>1
  <2> HIDE DEF c
  <2>3. CASE origin # "report"
    BY <1>k, <2>1, <2>2, <2>3
  <2>4. CASE origin = "report"
    <3> DEFINE all == RowsOf({"report", "defense", "receipt"})  some == ReportsIn(evidence)
    <3>1. some \subseteq all /\ Cardinality(all) < MaxEvidence
      BY <2>1, <2>4 DEF RowsOf, ReportsIn, BelowLimit
    <3>2. all \subseteq 1..Len(evidence)
      BY DEF RowsOf
    <3>3. IsFiniteSet(1..Len(evidence))
      BY EvidenceFacts, FS_Interval
    <3> HIDE DEF all, some
    <3>4. IsFiniteSet(all)
      BY <3>2, <3>3, FS_Subset
    <3>5. IsFiniteSet(some) /\ Cardinality(some) <= Cardinality(all)
      BY <3>1, <3>4, FS_Subset
    <3>6. Cardinality(some) \in Nat /\ Cardinality(all) \in Nat
      BY <3>4, <3>5, FS_CardinalityType
    <3>7. Cardinality(some) + Cardinality(H) <= n
      BY <3>1, <3>5, <3>6, RoomOfUploads DEF n
    <3>8. Reporting(H, uploading') \subseteq H
      BY DEF Reporting
    <3>9. Within(n, some, Reporting(H, uploading'))
      BY <1>n, <3>5, <3>7, <3>8, WithinStarts
    <3> QED BY <1>q, <2>1, <3>9 DEF some
  <2> QED BY <2>3, <2>4
<1>2. ASSUME NEW h \in H, WriteFile(h) PROVE UploadLimits(H)'
  <2> DEFINE d == [uploading[h] EXCEPT !.phase = "row",
                     !.files = Append(uploading[h].files, NewName(uploading[h].origin)),
                     !.pending = uploading[h].pending - 1]
  <2>1. uploading[h].phase = "file" /\ UploadGoes(h, d) /\ evidence' = evidence
    BY <1>2 DEF WriteFile
  <2>2. d.origin = uploading[h].origin
    BY EvidenceFacts DEF Uploading
  <2> HIDE DEF d
  <2> QED BY <1>k, <2>1, <2>2
<1>3. ASSUME NEW h \in H, InsertRow(h) PROVE UploadLimits(H)'
  <2> DEFINE d == [uploading[h] EXCEPT !.phase = IF uploading[h].pending > 0 THEN "file" ELSE "rest"]
  <2>1. uploading[h].phase = "row" /\ UploadGoes(h, d) /\ evidence' = evidence
    BY <1>3 DEF InsertRow
  <2>2. d.origin = uploading[h].origin
    BY EvidenceFacts DEF Uploading
  <2> HIDE DEF d
  <2> QED BY <1>k, <2>1, <2>2
<1>4. ASSUME NEW h \in H, SaveRows(h) PROVE UploadLimits(H)'
  <2> DEFINE c == uploading[h]
  <2>1. /\ RowsAdded(evidence, c, evidence') /\ c.phase # "idle"
        /\ uploading' = [uploading EXCEPT ![h] = NotUploading]
    BY <1>4, RowsOfFiles DEF UploadEnds, UploadGoes
  <2>2. \A g \in H : uploading'[g] = IF g = h THEN NotUploading ELSE uploading[g]
    BY <2>1, EvidenceFacts
  <2>3. Reporting(H, uploading') \subseteq Reporting(H, uploading) \ {h}
    BY <2>2, NotUploadingFits DEF Reporting
  <2>4. c \in Uploading /\ FileKnows(c) /\ Len(evidence) \in Nat
    BY EvidenceFacts
  <2>5. c.origin = "report" => h \in Reporting(H, uploading)
    BY <2>1 DEF Reporting
  <2> HIDE DEF c
  <2>6. CASE c.origin = "report"
    <3>1. Len(c.files) + c.pending = 1 /\ Len(c.files) \in Nat /\ c.pending \in Nat
      BY <2>1, <2>4, <2>6, EvidenceAssumption DEF FileKnows, Uploading
    <3>2. \A i \in 1..Len(evidence') : i \notin 1..Len(evidence) => i = Len(evidence) + 1
      BY <2>1, <2>4, <3>1 DEF RowsAdded
    <3>3. ReportsIn(evidence') \subseteq ReportsIn(evidence) \cup {Len(evidence) + 1}
      BY <2>1, <3>2 DEF ReportsIn, RowsAdded
    <3> DEFINE new == Len(evidence) + 1
    <3>4. ReportsIn(evidence') \subseteq ReportsIn(evidence) \cup {new}
      BY <3>3
    <3> HIDE DEF new
    <3>5. Within(n, ReportsIn(evidence'), Reporting(H, uploading'))
      BY <1>n, <1>w, <2>3, <2>5, <2>6, <3>4, WithinMoves
    <3> QED BY <1>q, <3>5
  <2>7. CASE c.origin # "report"
    <3>1. ReportsIn(evidence') \subseteq ReportsIn(evidence)
      BY <2>1, <2>7 DEF ReportsIn, RowsAdded
    <3>2. Reporting(H, uploading') \subseteq Reporting(H, uploading)
      BY <2>3
    <3>3. Within(n, ReportsIn(evidence'), Reporting(H, uploading'))
      BY <1>n, <1>w, <3>1, <3>2, WithinFalls
    <3> QED BY <1>q, <3>3
  <2> QED BY <2>6, <2>7
<1>5. ASSUME NEW h \in H, UploadFails(h) PROVE UploadLimits(H)'
  <2>1. UploadGoes(h, NotUploading) /\ evidence' = evidence
    BY <1>5 DEF UploadFails, UploadEnds
  <2> QED BY <1>k, <2>1, NotUploadingFits
<1>6. ASSUME NEW h \in H, UploadDies(h) PROVE UploadLimits(H)'
  <2>1. UploadGoes(h, NotUploading) /\ evidence' = evidence
    BY <1>6 DEF UploadDies, UploadEnds
  <2> QED BY <1>k, <2>1, NotUploadingFits
<1>7. CASE MsPasses \/ UNCHANGED evidenceVars
  <2>1. UNCHANGED <<evidence, uploading>>
    BY <1>7 DEF MsPasses, evidenceVars
  <2> QED BY <1>s, <2>1
<1> QED BY <1>1, <1>2, <1>3, <1>4, <1>5, <1>6, <1>7 DEF EvidenceNext

LEMMA UploadsMean ==
  ASSUME NEW H \in SUBSET Handlers, H # {}, IsFiniteSet(H), UploadLimits(H)
  PROVE  UploadsWithin(Cardinality(H))
<1>1. RowsOf({"report"}) = ReportsIn(evidence)
  BY DEF RowsOf, ReportsIn
<1>2. Cardinality(ReportsIn(evidence)) <= MaxEvidence + Cardinality(H) - 1
  BY RoomOfUploads, WithinMeans DEF UploadLimits
<1> QED BY <1>1, <1>2 DEF UploadsWithin

-----------------------------------------------------------------------------
(* The conduct of a student: the points of any of his cases.               *)
LEMMA ConductStep == ASSUME ConductTypeOK, [ConductNext]_conductVars PROVE ConductTypeOK'
<1>1. enrolled \in Enrollments /\ settings \in Thresholds /\ records \in Seq(Record)
  BY DEF ConductTypeOK
<1>2. CASE UNCHANGED conductVars
  BY <1>1, <1>2 DEF conductVars, ConductTypeOK
<1>3. CASE OpenRecord
  <2>1. PICK s \in Severities, r \in Reporters :
          /\ records' = Append(records,
               [ group |-> enrolled.group, period |-> enrolled.period, track |-> Rules[s].track,
                 status |-> OpeningStatus(Rules[s].track), severity |-> s, reporter |-> r ])
          /\ enrolled' = enrolled /\ settings' = settings
    BY <1>3 DEF OpenRecord
  <2>2. Rules[s].track \in Tracks
    BY RecordAssumption DEF RecordAssumption, Rules, Tracks
  <2>3. OpeningStatus(Rules[s].track) \in Statuses
    BY DEF OpeningStatus, Statuses
  <2>4. enrolled.group \in Groups /\ enrolled.period \in Periods
    BY <1>1 DEF Groups, Periods
  <2>5. [ group |-> enrolled.group, period |-> enrolled.period, track |-> Rules[s].track,
          status |-> OpeningStatus(Rules[s].track), severity |-> s, reporter |-> r ] \in Record
    BY <2>2, <2>3, <2>4 DEF Record
  <2>6. \A row \in Record : Append(records, row) \in Seq(Record)
    BY <1>1
  <2> QED BY <1>1, <2>1, <2>5, <2>6 DEF ConductTypeOK
<1>4. CASE MoveRecord
  <2>1. PICK i \in DOMAIN records, to \in Statuses, s \in Severities :
          /\ records' = [records EXCEPT ![i].status = to, ![i].severity = s]
          /\ enrolled' = enrolled /\ settings' = settings
    BY <1>4 DEF MoveRecord
  <2>2. PICK row : row = [records[i] EXCEPT !.status = to, !.severity = s]
    OBVIOUS
  <2>3. row \in Record
    <3>1. records[i] \in Record
      BY <1>1
    <3> QED BY <2>2, <3>1 DEF Record
  <2>4. records' = [records EXCEPT ![i] = row]
    BY <2>1, <2>2
  <2>5. [records EXCEPT ![i] = row] \in Seq(Record)
    BY <1>1, <2>3
  <2> QED BY <1>1, <2>1, <2>4, <2>5 DEF ConductTypeOK
<1>5. CASE ChangeGroup
  BY <1>1, <1>5 DEF ChangeGroup, ConductTypeOK
<1>6. CASE UpdateSettings
  BY <1>1, <1>6 DEF UpdateSettings, ConductTypeOK
<1> QED BY <1>2, <1>3, <1>4, <1>5, <1>6 DEF ConductNext

Weights == [i \in DOMAIN records |-> Rules[records[i].severity].deduction]

LEMMA RecordsAre ==
  ASSUME ConductTypeOK
  PROVE  /\ IsFiniteSet(DOMAIN records) /\ Weights \in [DOMAIN records -> Nat]
         /\ \A i \in DOMAIN records :
              records[i] \in Record /\ records[i].period \in Periods /\ records[i].group \in Groups
<1>1. records \in Seq(Record)
  BY DEF ConductTypeOK
<1>2. PICK n \in Nat : DOMAIN records = 1..n
  BY <1>1
<1>3. IsFiniteSet(DOMAIN records)
  <2>1. 1 \in Int /\ n \in Int
    BY <1>2
  <2> QED BY <1>2, <2>1, FS_Interval
<1>4. ASSUME NEW i \in DOMAIN records
      PROVE  records[i] \in Record /\ Rules[records[i].severity].deduction \in Nat
  <2>1. records[i] \in Record
    BY <1>1
  <2>2. records[i].severity \in DOMAIN Rules
    BY <2>1, RecordAssumption DEF Record, RecordAssumption
  <2> QED BY <2>1, <2>2 DEF Rules
<1>5. \A i \in DOMAIN records : records[i].period \in Periods /\ records[i].group \in Groups
  BY <1>4 DEF Record
<1> QED BY <1>3, <1>4, <1>5 DEF Weights

LEMMA PointsFold ==
  ASSUME NEW rows, NEW w, \A i \in rows : w[i] = Rules[records[i].severity].deduction,
         NEW h, IsFoldOf(h, w, rows)
  PROVE  \E g : IsFoldOf(g, w, rows) /\ Points(rows) = g[rows]
<1> DEFINE IsFold(f) == f = [s \in SUBSET rows |->
                 IF s = {} THEN 0
                 ELSE Rules[records[CHOOSE x \in s : TRUE].severity].deduction + f[s \ {CHOOSE x \in s : TRUE}]]
           fold == CHOOSE f : IsFold(f)
<1>1. Points(rows) = fold[rows]
  BY DEF Points, MapThenSumSet, MapThenFoldSet
<1>2. ASSUME NEW s \in SUBSET rows, s # {}
      PROVE  w[FirstOf(s)] = Rules[records[CHOOSE x \in s : TRUE].severity].deduction
  <2>1. FirstOf(s) \in rows
    BY <1>2, FirstOfIs
  <2> QED BY <2>1 DEF FirstOf
<1>3. \A f : IsFold(f) <=> IsFoldOf(f, w, rows)
  BY <1>2 DEF IsFoldOf, FirstOf
<1>4. IsFold(fold)
  <2>1. IsFold(h)
    BY <1>3
  <2> HIDE DEF IsFold
  <2> QED BY <2>1
<1>5. IsFoldOf(fold, w, rows)
  <2> HIDE DEF IsFold, fold
  <2> QED BY <1>3, <1>4
<1> HIDE DEF fold
<1> QED BY <1>1, <1>5

LEMMA PointsKnown ==
  ASSUME ConductTypeOK
  PROVE  \E g : Sums(g, Weights, DOMAIN records) /\ \A rows \in SUBSET DOMAIN records : Points(rows) = g[rows]
<1>1. IsFiniteSet(DOMAIN records) /\ Weights \in [DOMAIN records -> Nat]
  BY RecordsAre
<1>2. PICK g : IsFoldOf(g, Weights, DOMAIN records)
  BY <1>1, FoldExists
<1>3. Sums(g, Weights, DOMAIN records)
  BY <1>1, <1>2, FoldSums
<1>4. ASSUME NEW rows \in SUBSET DOMAIN records PROVE Points(rows) = g[rows]
  <2>1. PICK w : w = [i \in rows |-> Weights[i]]
    OBVIOUS
  <2>2. IsFiniteSet(rows) /\ w \in [rows -> Nat]
    BY <1>1, <2>1, FS_Subset
  <2>3. PICK h : IsFoldOf(h, w, rows)
    BY <2>2, FoldExists
  <2>4. \A i \in rows : w[i] = Rules[records[i].severity].deduction
    BY <2>1 DEF Weights
  <2>5. PICK f : IsFoldOf(f, w, rows) /\ Points(rows) = f[rows]
    BY <2>3, <2>4, PointsFold
  <2>6. Sums(f, w, rows)
    BY <2>2, <2>5, FoldSums
  <2>7. \A i \in rows : w[i] = Weights[i]
    BY <2>1
  <2>8. f[rows] = g[rows]
    BY <1>3, <2>2, <2>6, <2>7, SumsMeet
  <2> QED BY <2>5, <2>8
<1> QED BY <1>3, <1>4

LEMMA PointsTyped ==
  ASSUME ConductTypeOK, NEW rows \in SUBSET DOMAIN records
  PROVE  /\ Points(rows) \in Nat /\ (rows = {} => Points(rows) = 0)
         /\ \A some \in SUBSET rows : Points(some) <= Points(rows)
<1>1. PICK g : Sums(g, Weights, DOMAIN records) /\ \A s \in SUBSET DOMAIN records : Points(s) = g[s]
  BY PointsKnown
<1>2. IsFiniteSet(DOMAIN records) /\ Weights \in [DOMAIN records -> Nat]
  BY RecordsAre
<1>3. ASSUME NEW some \in SUBSET rows PROVE Points(some) <= Points(rows)
  <2>1. some \in SUBSET DOMAIN records
    OBVIOUS
  <2>2. g[some] <= g[rows]
    BY <1>1, <1>2, SumGrows
  <2> QED BY <1>1, <2>1, <2>2
<1>4. Points(rows) \in Nat
  BY <1>1, SumTyped
<1>5. g[{}] = 0
  BY <1>1 DEF Sums
<1> QED BY <1>1, <1>3, <1>4, <1>5

LEMMA FloorIs ==
  ASSUME NEW a \in Nat, NEW b \in Nat
  PROVE  /\ Floor(a) \in Nat /\ (Floor(a) < 100 <=> a > 0) /\ (a <= b => Floor(b) <= Floor(a))
  BY DEF Floor

\* What the pages count of a period.
LEMMA BucketsAre ==
  ASSUME ConductTypeOK, NEW who, NEW p
  PROVE  /\ Bucket(who, p) \in SUBSET DOMAIN records
         /\ {i \in Bucket(who, p) : records[i].status = "FIRM"} \in SUBSET DOMAIN records
         /\ FirmPoints(who, p) \in Nat /\ Floor(FirmPoints(who, p)) \in Nat
         /\ IsFiniteSet(Bucket(who, p)) /\ Cardinality(Bucket(who, p)) \in Nat
         /\ FirmPoints(who, p) > 0 => Bucket(who, p) # {}
<1>1. Bucket(who, p) \in SUBSET DOMAIN records
  BY DEF Bucket, OfPeriod, CaseScope
<1> DEFINE firm == {i \in Bucket(who, p) : records[i].status = "FIRM"}
<1>2. firm \in SUBSET DOMAIN records
  BY <1>1
<1>3. FirmPoints(who, p) = Points(firm)
  BY DEF FirmPoints
<1>4. Bucket(who, p) = {} => firm = {}
  OBVIOUS
<1> HIDE DEF firm
<1>5. Points(firm) \in Nat /\ (firm = {} => Points(firm) = 0)
  BY <1>2, PointsTyped
<1>6. Floor(FirmPoints(who, p)) \in Nat
  BY <1>3, <1>5, FloorIs
<1>7. IsFiniteSet(Bucket(who, p)) /\ Cardinality(Bucket(who, p)) \in Nat
  BY <1>1, RecordsAre, FS_Subset, FS_CardinalityType
<1> QED BY <1>1, <1>2, <1>3, <1>4, <1>5, <1>6, <1>7 DEF firm

\* Whoever sees less counts no more.
LEMMA BucketsGrow ==
  ASSUME ConductTypeOK, NEW who, NEW p
  PROVE  /\ Bucket(who, p) \subseteq Bucket("all", p)
         /\ FirmPoints(who, p) <= FirmPoints("all", p)
         /\ Cardinality(Bucket(who, p)) <= Cardinality(Bucket("all", p))
<1>1. Bucket(who, p) \subseteq Bucket("all", p)
  BY DEF Bucket, OfPeriod, CaseScope
<1> DEFINE mine == {i \in Bucket(who, p) : records[i].status = "FIRM"}
           firm == {i \in Bucket("all", p) : records[i].status = "FIRM"}
<1>2. mine \in SUBSET firm /\ firm \in SUBSET DOMAIN records
  BY <1>1, BucketsAre
<1>3. FirmPoints(who, p) = Points(mine) /\ FirmPoints("all", p) = Points(firm)
  BY DEF FirmPoints
<1> HIDE DEF mine, firm
<1>4. Points(mine) <= Points(firm)
  BY <1>2, PointsTyped
<1>5. Cardinality(Bucket(who, p)) <= Cardinality(Bucket("all", p))
  BY <1>1, BucketsAre, FS_Subset
<1> QED BY <1>1, <1>3, <1>4, <1>5

\* The grade of a period, whatever is filtered.
Grade(p) == Floor(FirmPoints("all", p))

LEMMA HistoryIs ==
  ASSUME ConductTypeOK, NEW filter, filter.status \subseteq Statuses, filter.severity \subseteq DOMAIN Rules
  PROVE  /\ DOMAIN History(filter) \subseteq DOMAIN History(Everything)
         /\ \A p \in DOMAIN History(filter) : History(filter)[p] = Grade(p)
<1>1. ASSUME NEW p PROVE Applied(CountedOfPeriod(filter, p)) = {i \in Bucket("all", p) : records[i].status = "FIRM"}
  BY DEF Applied, CountedOfPeriod, OfPeriod, Bucket, CaseScope, DeductionState
<1>2. Visible(filter) \subseteq Visible(Everything)
  BY DEF Visible, Everything
<1>3. DOMAIN History(filter) \subseteq DOMAIN History(Everything)
  BY <1>2 DEF History
<1>4. ASSUME NEW p \in DOMAIN History(filter) PROVE History(filter)[p] = Grade(p)
  <2>1. History(filter)[p] = Floor(Points(Applied(CountedOfPeriod(filter, p))))
    BY DEF History
  <2> QED BY <1>1, <2>1 DEF Grade, FirmPoints
<1> QED BY <1>3, <1>4

LEMMA EverythingIs ==
  ASSUME ConductTypeOK
  PROVE  /\ DOMAIN History(Everything) = {records[i].period : i \in DOMAIN records}
         /\ \A p \in DOMAIN History(Everything) : History(Everything)[p] = Grade(p)
         /\ DOMAIN History(Everything) \subseteq Periods
<1>1. Everything.status = Statuses /\ Everything.severity = DOMAIN Rules
  BY DEF Everything
<1>2. \A p \in DOMAIN History(Everything) : History(Everything)[p] = Grade(p)
  BY <1>1, HistoryIs
<1>3. \A i \in DOMAIN records : records[i].status \in Statuses /\ records[i].severity \in DOMAIN Rules
  BY RecordsAre, RecordAssumption DEF Record, RecordAssumption
<1>4. Visible(Everything) = DOMAIN records
  BY <1>1, <1>3 DEF Visible
<1>5. DOMAIN History(Everything) = {records[i].period : i \in DOMAIN records}
  BY <1>4 DEF History
<1> QED BY <1>2, <1>5, RecordsAre

LEMMA GradesMeet == ConductTypeOK => GradeIsOne
<1> SUFFICES ASSUME ConductTypeOK PROVE GradeIsOne
  OBVIOUS
<1>1. ASSUME NEW f \in Filters, NEW p \in DOMAIN History(f)
      PROVE  History(f)[p] = History(Everything)[p]
  <2>1. f.status \subseteq Statuses /\ f.severity \subseteq DOMAIN Rules
    BY RecordAssumption DEF RecordAssumption, Filters, Everything
  <2>2. p \in DOMAIN History(Everything) /\ History(f)[p] = Grade(p)
    BY <2>1, HistoryIs
  <2> QED BY <2>2, EverythingIs
<1> DEFINE Low == {q \in DOMAIN History(Everything) :
                     History(Everything)[q] <= settings.conduct /\ History(Everything)[q] < 100}
           Told == {q \in Periods : /\ Bucket("all", q) # {} /\ SeesGroup("all", q)
                                    /\ FirmPoints("all", q) > 0
                                    /\ Floor(FirmPoints("all", q)) <= settings.conduct}
<1>2. ASSUME NEW q PROVE q \in Low <=> q \in Told
  <2>1. FirmPoints("all", q) \in Nat /\ (FirmPoints("all", q) > 0 => Bucket("all", q) # {})
    BY BucketsAre
  <2>2. Grade(q) < 100 <=> FirmPoints("all", q) > 0
    BY <2>1, FloorIs DEF Grade
  <2>3. Bucket("all", q) # {} => q \in DOMAIN History(Everything)
    BY EverythingIs DEF Bucket, OfPeriod, CaseScope
  <2>4. q \in Low <=> q \in DOMAIN History(Everything) /\ Grade(q) <= settings.conduct /\ Grade(q) < 100
    BY EverythingIs
  <2>5. q \in Told <=> q \in Periods /\ Bucket("all", q) # {} /\ FirmPoints("all", q) > 0 /\ Grade(q) <= settings.conduct
    BY DEF SeesGroup, Grade
  <2>6. q \in DOMAIN History(Everything) => q \in Periods
    BY EverythingIs
  <2> QED BY <2>1, <2>2, <2>3, <2>4, <2>5, <2>6
<1>3. Low = Told
  BY <1>2
<1>4. LowConduct("all") = {[period |-> p, grade |-> Grade(p)] : p \in Told}
  BY DEF LowConduct, Grade
<1>5. {[period |-> p, grade |-> History(Everything)[p]] : p \in Low} = {[period |-> p, grade |-> Grade(p)] : p \in Low}
  <2>1. \A p \in Low : History(Everything)[p] = Grade(p)
    BY EverythingIs
  <2> HIDE DEF Low
  <2> QED BY <2>1
<1>6. LowConduct("all") = {[period |-> p, grade |-> History(Everything)[p]] : p \in Low}
  <2> HIDE DEF Low, Told
  <2> QED BY <1>3, <1>4, <1>5
<1> QED BY <1>1, <1>6 DEF GradeIsOne

\* An alert of low conduct.
LowIn(who, p) ==
  /\ p \in Periods /\ Bucket(who, p) # {} /\ SeesGroup(who, p) /\ FirmPoints(who, p) > 0
  /\ Floor(FirmPoints(who, p)) <= settings.conduct

LEMMA LowIs ==
  ASSUME NEW who
  PROVE  LowConduct(who) = {[period |-> p, grade |-> Floor(FirmPoints(who, p))] : p \in {q \in Periods : LowIn(who, q)}}
  BY DEF LowConduct, LowIn

LEMMA GuidesToldTruly == ConductTypeOK => GuideToldTruly
<1> SUFFICES ASSUME ConductTypeOK, NEW g \in Groups
             PROVE  /\ Recidivism(g) \subseteq Recidivism("all")
                    /\ \A a \in LowConduct(g) : \E b \in LowConduct("all") : b.period = a.period /\ b.grade <= a.grade
                    /\ \A p \in Periods :
                         (\A i \in OfPeriod(DOMAIN records, p) : records[i].group = g) =>
                           /\ {a \in LowConduct(g) : a.period = p} = {a \in LowConduct("all") : a.period = p}
                           /\ p \in Recidivism(g) <=> p \in Recidivism("all")
  BY DEF GuideToldTruly
<1>0. settings.recidivism \in Nat /\ settings.conduct \in Nat
  BY RecordAssumption DEF ConductTypeOK, RecordAssumption
<1>1. \A p : SeesGroup("all", p)
  BY DEF SeesGroup
<1>2. Recidivism(g) \subseteq Recidivism("all")
  <2>1. ASSUME NEW p \in Periods, Bucket(g, p) # {}, Cardinality(Bucket(g, p)) >= settings.recidivism
        PROVE  Bucket("all", p) # {} /\ Cardinality(Bucket("all", p)) >= settings.recidivism
    <3>1. Bucket(g, p) \subseteq Bucket("all", p) /\ Cardinality(Bucket(g, p)) <= Cardinality(Bucket("all", p))
      BY BucketsGrow
    <3>2. Cardinality(Bucket(g, p)) \in Nat /\ Cardinality(Bucket("all", p)) \in Nat
      BY BucketsAre
    <3> QED BY <1>0, <2>1, <3>1, <3>2
  <2> QED BY <1>1, <2>1 DEF Recidivism
<1>3. ASSUME NEW p, LowIn(g, p)
      PROVE  LowIn("all", p) /\ Floor(FirmPoints("all", p)) <= Floor(FirmPoints(g, p))
  <2>1. Bucket(g, p) \subseteq Bucket("all", p) /\ FirmPoints(g, p) <= FirmPoints("all", p)
    BY BucketsGrow
  <2>2. /\ FirmPoints(g, p) \in Nat /\ FirmPoints("all", p) \in Nat
        /\ Floor(FirmPoints(g, p)) \in Nat /\ Floor(FirmPoints("all", p)) \in Nat
    BY BucketsAre
  <2>3. Floor(FirmPoints("all", p)) <= Floor(FirmPoints(g, p))
    BY <2>1, <2>2, FloorIs
  <2>4. FirmPoints("all", p) > 0 /\ Floor(FirmPoints("all", p)) <= settings.conduct
    BY <1>0, <1>3, <2>1, <2>2, <2>3 DEF LowIn
  <2> QED BY <1>1, <1>3, <2>1, <2>3, <2>4 DEF LowIn
<1>4. ASSUME NEW a \in LowConduct(g)
      PROVE  \E b \in LowConduct("all") : b.period = a.period /\ b.grade <= a.grade
  <2>1. PICK p \in Periods : LowIn(g, p) /\ a = [period |-> p, grade |-> Floor(FirmPoints(g, p))]
    BY LowIs
  <2>2. LowIn("all", p) /\ Floor(FirmPoints("all", p)) <= Floor(FirmPoints(g, p))
    BY <1>3, <2>1
  <2>3. PICK b : b = [period |-> p, grade |-> Floor(FirmPoints("all", p))]
    OBVIOUS
  <2>4. b \in LowConduct("all")
    BY <2>2, <2>3, LowIs
  <2> QED BY <2>1, <2>2, <2>3, <2>4
<1>5. ASSUME NEW p \in Periods, \A i \in OfPeriod(DOMAIN records, p) : records[i].group = g
      PROVE  /\ {a \in LowConduct(g) : a.period = p} = {a \in LowConduct("all") : a.period = p}
             /\ p \in Recidivism(g) <=> p \in Recidivism("all")
  <2>1. Bucket(g, p) = Bucket("all", p)
    BY <1>5 DEF Bucket, OfPeriod, CaseScope
  <2>2. FirmPoints(g, p) = FirmPoints("all", p)
    BY <2>1 DEF FirmPoints
  <2>3. Bucket(g, p) # {} => SeesGroup(g, p)
    BY <1>5 DEF Bucket, OfPeriod, CaseScope, SeesGroup
  <2>4. LowIn(g, p) <=> LowIn("all", p)
    BY <1>1, <2>1, <2>2, <2>3 DEF LowIn
  <2>5. \A who : {a \in LowConduct(who) : a.period = p} =
                   IF LowIn(who, p) THEN {[period |-> p, grade |-> Floor(FirmPoints(who, p))]} ELSE {}
    BY LowIs
  <2>6. p \in Recidivism(g) <=> p \in Recidivism("all")
    BY <1>1, <2>1, <2>3 DEF Recidivism
  <2> QED BY <2>2, <2>4, <2>5, <2>6
<1> QED BY <1>2, <1>4, <1>5

\* The cases of each group are all cases.
BoardsOf(p) == MapThenSumSet(LAMBDA g : Cardinality(Board(g, "any", p)), Groups)

LEMMA BoardsFold ==
  ASSUME NEW p, NEW w, \A g \in Groups : w[g] = Cardinality(Board(g, "any", p)), NEW h, IsFoldOf(h, w, Groups)
  PROVE  \E f : IsFoldOf(f, w, Groups) /\ BoardsOf(p) = f[Groups]
<1> DEFINE IsFold(f) == f = [s \in SUBSET Groups |->
                 IF s = {} THEN 0
                 ELSE Cardinality(Board(CHOOSE x \in s : TRUE, "any", p)) + f[s \ {CHOOSE x \in s : TRUE}]]
           fold == CHOOSE f : IsFold(f)
<1>1. BoardsOf(p) = fold[Groups]
  BY DEF BoardsOf, MapThenSumSet, MapThenFoldSet
<1>2. ASSUME NEW s \in SUBSET Groups, s # {}
      PROVE  w[FirstOf(s)] = Cardinality(Board(CHOOSE x \in s : TRUE, "any", p))
  <2>1. FirstOf(s) \in Groups
    BY <1>2, FirstOfIs
  <2> QED BY <2>1 DEF FirstOf
<1>3. ASSUME NEW f PROVE IsFold(f) <=> IsFoldOf(f, w, Groups)
  <2>1. ASSUME NEW s \in SUBSET Groups
        PROVE  (IF s = {} THEN 0 ELSE w[FirstOf(s)] + f[s \ {FirstOf(s)}]) =
               IF s = {} THEN 0
               ELSE Cardinality(Board(CHOOSE x \in s : TRUE, "any", p)) + f[s \ {CHOOSE x \in s : TRUE}]
    <3>1. FirstOf(s) = CHOOSE x \in s : TRUE
      BY DEF FirstOf
    <3> QED BY <1>2, <3>1
  <2>2. [s \in SUBSET Groups |-> IF s = {} THEN 0 ELSE w[FirstOf(s)] + f[s \ {FirstOf(s)}]] =
        [s \in SUBSET Groups |->
           IF s = {} THEN 0
           ELSE Cardinality(Board(CHOOSE x \in s : TRUE, "any", p)) + f[s \ {CHOOSE x \in s : TRUE}]]
    BY <2>1
  <2> QED BY <2>2 DEF IsFoldOf
<1>4. IsFold(fold)
  <2>1. IsFold(h)
    BY <1>3
  <2> HIDE DEF IsFold
  <2> QED BY <2>1
<1>5. IsFoldOf(fold, w, Groups)
  <2> HIDE DEF IsFold, fold
  <2> QED BY <1>3, <1>4
<1> HIDE DEF fold
<1> QED BY <1>1, <1>5

LEMMA AlertsFollowed == ConductTypeOK => AlertsAreFollowed
<1> SUFFICES ASSUME ConductTypeOK PROVE AlertsAreFollowed
  OBVIOUS
<1>1. ASSUME NEW w \in Lookers PROVE BoardAlerts(w, "any", 0) = LowConduct(w)
  <2>1. CASE Board(w, "any", 0) # {}
    BY <2>1 DEF BoardAlerts
  <2>2. CASE Board(w, "any", 0) = {}
    <3>1. ASSUME NEW p \in Periods, LowIn(w, p) PROVE FALSE
      <4>1. \A i \in DOMAIN records : w # "all" /\ records[i].group # w
        BY <2>2 DEF Board
      <4>2. Bucket(w, p) # {} /\ Bucket(w, p) \subseteq DOMAIN records /\ SeesGroup(w, p)
        BY <3>1, BucketsAre DEF LowIn
      <4> QED BY <4>1, <4>2 DEF SeesGroup
    <3>2. LowConduct(w) = {}
      BY <3>1, LowIs
    <3> QED BY <2>2, <3>2 DEF BoardAlerts
  <2> QED BY <2>1, <2>2
<1>2. ASSUME NEW p \in Periods \cup {0}
      PROVE  Cardinality(Board("all", "any", p)) =
               MapThenSumSet(LAMBDA g : Cardinality(Board(g, "any", p)), Groups)
  <2>1. PICK parts : parts = [g \in Groups |-> Board(g, "any", p)]
    OBVIOUS
  <2>2. PICK w : w = [g \in Groups |-> Cardinality(parts[g])]
    OBVIOUS
  <2>3. IsFiniteSet(Groups)
    <3>1. IsFiniteSet(Enrollments)
      BY RecordAssumption DEF RecordAssumption
    <3>2. PICK f : f = [e \in Enrollments |-> e.group]
      OBVIOUS
    <3>3. f \in Surjection(Enrollments, Groups)
      BY <3>2 DEF Surjection, Groups
    <3> QED BY <3>1, <3>3, FS_Surjection
  <2>4. ASSUME NEW g \in Groups PROVE IsFiniteSet(parts[g]) /\ parts[g] = {i \in Board("all", "any", p) : records[i].group = g}
    <3>1. g # "all"
      BY RecordAssumption DEF RecordAssumption, Groups
    <3>2. parts[g] = {i \in Board("all", "any", p) : records[i].group = g}
      BY <2>1, <3>1 DEF Board
    <3>3. parts[g] \in SUBSET DOMAIN records
      BY <2>1 DEF Board
    <3> QED BY <3>2, <3>3, RecordsAre, FS_Subset
  <2>5. w \in [Groups -> Nat]
    BY <2>2, <2>4, FS_CardinalityType
  <2>6. PICK h : IsFoldOf(h, w, Groups)
    BY <2>3, <2>5, FoldExists
  <2>7. \A g \in Groups : w[g] = Cardinality(Board(g, "any", p))
    BY <2>1, <2>2
  <2>8. PICK f : IsFoldOf(f, w, Groups) /\ BoardsOf(p) = f[Groups]
    BY <2>6, <2>7, BoardsFold
  <2>9. Sums(f, w, Groups)
    BY <2>3, <2>5, <2>8, FoldSums
  <2>10. Disjoint(parts, Groups)
    BY <2>4 DEF Disjoint
  <2>11. f[Groups] = Cardinality(UNION {parts[x] : x \in Groups})
    BY <2>2, <2>3, <2>9, <2>10, PartsAddUp
  <2>12. UNION {parts[x] : x \in Groups} = Board("all", "any", p)
    <3>1. \A i \in Board("all", "any", p) : records[i].group \in Groups
      BY RecordsAre DEF Board
    <3> QED BY <2>4, <3>1
  <2>13. BoardsOf(p) = Cardinality(Board("all", "any", p))
    BY <2>8, <2>11, <2>12
  <2> QED BY <2>13 DEF BoardsOf
<1> QED BY <1>1, <1>2 DEF AlertsAreFollowed

LEMMA ConductMeans == ConductTypeOK => ConductAgrees
  BY GradesMeet, GuidesToldTruly, AlertsFollowed DEF ConductAgrees
===============================================================================
