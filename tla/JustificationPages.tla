-------------------------- MODULE JustificationPages --------------------------
(***************************************************************************)
(* The pages of the absence justifications: the absences that may still be *)
(* justified, the list and the detail of justifications, and the inbox of  *)
(* those who decide them.  They write nothing; each decides with code of   *)
(* its own what the handlers of Attendance decide when somebody acts.      *)
(***************************************************************************)
EXTENDS Attendance

\* One user, next to one absence: permissions attendance.*, whether the role is the
\* administrator's, and what ties him to the absence or to its justification.
Reader ==
  [ permissions : SUBSET {"view", "view_own", "justify", "review"}, admin : BOOLEAN,
    ties : SUBSET {"student", "guardian", "teacher", "creator"} ]

Reviews(a)  == "review" \in a.permissions
Family(a)   == a.ties \cap {"student", "guardian"} # {}
Teaches(a)  == "teacher" \in a.ties
CanRead(a)  == a.admin \/ a.permissions # {}

\* applyJustificationScope: the rows of the list.
ListScope(a) == a.admin \/ IF Reviews(a) THEN Teaches(a) ELSE Family(a)

\* canSeeJustification: one justification and the files of its evidence.
CanSee(a) ==
  \/ a.admin
  \/ Reviews(a) /\ Teaches(a)
  \/ ~Reviews(a) /\ Family(a)

\* getJustifications; getEvidenceFile, which asks for no permission of its own.
JustificationsListed == {a \in Reader : CanRead(a) /\ ListScope(a)}
JustificationSeen    == {a \in Reader : CanSee(a)}

\* getJustifiableAbsences, for oneself and one's students or (reviewers) for the
\* student asked for.
AbsencesOffered == {a \in Reader : CanRead(a) /\ (Reviews(a) \/ Family(a))}

\* createJustification, reviewJustification, assertCanAttachEvidence: who may.
MayJustify == {a \in Reader : Reviews(a) \/ Family(a)}
MayDecide  == {a \in Reader : a.admin \/ Teaches(a)}
MayAttach  == {a \in Reader : Reviews(a) \/ "creator" \in a.ties \/ Family(a)}

\* The bell: pending justifications, for those who decide.
InInbox == {a \in JustificationsListed : a.admin \/ Reviews(a)}

-----------------------------------------------------------------------------
\* The absences on offer: the status of the mark is asked as well as the rows.
Justifiable ==
  {p \in Pupils : /\ marks[p] # None /\ marks[p].status = "ABSENT"
                  /\ marks[p].just \in {"NONE", "REJECTED"} /\ ~HasActive(p)}

\* The absences createJustification accepts.
Accepted == {p \in Pupils : marks[p] # None /\ marks[p].status = "ABSENT" /\ ~HasActive(p)}

InboxRows == {i \in DOMAIN justifications : justifications[i].status = "PENDING"}

-----------------------------------------------------------------------------
(* "Espejo de la regla de creación" (getJustifiableAbsences): served one   *)
(* request at a time, the absences on offer are those that are accepted,   *)
(* whatever lists, codes, exceptions and reviews follow each other on the  *)
(* mark; a justification in the inbox still has its mark to decide on.     *)
OfferedAsAccepted ==
  /\ Justifiable = Accepted
  /\ \A i \in InboxRows : marks[justifications[i].pupil].just # "NONE"
                          /\ justifications[i].pupil \notin Justifiable

(* Whoever finds a justification in the list may open it, and the other    *)
(* way round; an absence is offered to those who may justify it; what the  *)
(* inbox asks for may be decided; and a family that files sees what it     *)
(* filed and may attach its evidence.                                      *)
ReadersAgree ==
  /\ JustificationsListed = {a \in JustificationSeen : CanRead(a)}
  /\ AbsencesOffered = {a \in MayJustify : CanRead(a)}
  /\ InInbox \subseteq MayDecide
  /\ {a \in AbsencesOffered : ~Reviews(a)} \subseteq JustificationSeen \cap MayAttach
=============================================================================
