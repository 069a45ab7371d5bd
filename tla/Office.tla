-------------------------------- MODULE Office --------------------------------
(***************************************************************************)
(* The office side: accounts, their verification, the limit of the logins, *)
(* user records, communications, and of a disciplinary case its opening,   *)
(* the desk of its investigation, its follow-ups and its files; the roles, *)
(* with the start of the server; the conduct of a student; and the import  *)
(* of students from a sheet.                                               *)
(* They share no row, so one behaviour runs one of them.  part names it,   *)
(* and crowd holds the requests that are served in it: one of them (Alone) *)
(* is the program serving one request at a time.  Nothing is promised of   *)
(* requests that race to write one user or one communication (their rows   *)
(* are saved as they were read), so they are run Alone.                    *)
(***************************************************************************)
EXTENDS Accounts, Verification, LoginAttempts, UserRecords, Communications,
        CaseIntake, Inquiries, FollowUps, EvidenceFiles, Roles, ConductRecord,
        BulkImport

VARIABLES part, crowd

Parts == {"accounts", "verification", "logins", "records", "communications",
          "intake", "inquiries", "follow-ups", "files", "roles", "conduct",
          "import"}

Served == Cardinality(crowd)
Alone  == Served = 1

peopleVars == <<accountVars, verifyVars, attemptVars, personVars, commVars>>
caseVars   == <<intakeVars, inquiryVars, followVars, evidenceVars>>
officeVars == <<peopleVars, caseVars, roleVars, conductVars, importVars, part, crowd>>

Init ==
  /\ AccountsInit /\ VerificationInit /\ AttemptsInit /\ RecordsInit /\ CommunicationsInit
  /\ IntakeInit /\ InquiriesInit /\ FollowUpsInit /\ EvidenceInit /\ RolesInit
  /\ ConductInit /\ ImportInit
  /\ part \in Parts /\ crowd \in (SUBSET Handlers) \ {{}}
  /\ part \in {"records", "communications", "roles", "conduct"} => Alone
  /\ part # "roles" => Synchronized /\ env = CHOOSE e \in Environment : ~e.other /\ ~e.production
  /\ part # "conduct" => settings = CHOOSE s \in Thresholds : TRUE
  /\ part # "conduct" => enrolled = CHOOSE e \in Enrollments : TRUE
  /\ part # "import" => offer = CHOOSE o \in Offers : TRUE

PeopleNext ==
  \/ /\ part = "accounts" /\ AccountsNext(crowd)
     /\ UNCHANGED <<verifyVars, attemptVars, personVars, commVars>>
  \/ /\ part = "verification" /\ VerificationNext(crowd)
     /\ UNCHANGED <<accountVars, attemptVars, personVars, commVars>>
  \/ /\ part = "logins" /\ AttemptsNext(crowd)
     /\ UNCHANGED <<accountVars, verifyVars, personVars, commVars>>
  \/ /\ part = "records" /\ RecordsNext(crowd)
     /\ UNCHANGED <<accountVars, verifyVars, attemptVars, commVars>>
  \/ /\ part = "communications" /\ CommunicationsNext(crowd)
     /\ UNCHANGED <<accountVars, verifyVars, attemptVars, personVars>>

CasesNext ==
  \/ /\ part = "intake" /\ IntakeNext(crowd)
     /\ UNCHANGED <<inquiryVars, followVars, evidenceVars>>
  \/ /\ part = "inquiries" /\ InquiriesNext(crowd)
     /\ UNCHANGED <<intakeVars, followVars, evidenceVars>>
  \/ /\ part = "follow-ups" /\ FollowUpsNext(crowd)
     /\ UNCHANGED <<intakeVars, inquiryVars, evidenceVars>>
  \/ /\ part = "files" /\ EvidenceNext(crowd)
     /\ UNCHANGED <<intakeVars, inquiryVars, followVars>>

Next ==
  /\ \/ PeopleNext /\ UNCHANGED <<caseVars, roleVars, conductVars, importVars>>
     \/ CasesNext /\ UNCHANGED <<peopleVars, roleVars, conductVars, importVars>>
     \/ /\ part = "roles" /\ RolesNext
        /\ UNCHANGED <<peopleVars, caseVars, conductVars, importVars>>
     \/ /\ part = "conduct" /\ ConductNext
        /\ UNCHANGED <<peopleVars, caseVars, roleVars, importVars>>
     \/ /\ part = "import" /\ ImportNext(crowd)
        /\ UNCHANGED <<peopleVars, caseVars, roleVars, conductVars>>
  /\ UNCHANGED <<part, crowd>>

Spec == Init /\ [][Next]_officeVars

-----------------------------------------------------------------------------
(* The type invariant of the part that runs: the others stay as they began.*)
OfficeTypeOK ==
  /\ part \in Parts /\ crowd \subseteq Handlers
  /\ CASE part = "accounts"       -> AccountTypeOK
       [] part = "verification"   -> VerificationTypeOK
       [] part = "logins"         -> AttemptsTypeOK
       [] part = "records"        -> RecordsTypeOK
       [] part = "communications" -> CommunicationsTypeOK
       [] part = "intake"         -> IntakeTypeOK
       [] part = "inquiries"      -> InquiriesTypeOK
       [] part = "follow-ups"     -> FollowUpsTypeOK
       [] part = "files"          -> EvidenceTypeOK
       [] part = "roles"          -> RolesTypeOK
       [] part = "conduct"        -> ConductTypeOK
       [] part = "import"         -> ImportTypeOK

-----------------------------------------------------------------------------
(* The limits, which racing requests overrun by no more than as many as    *)
(* they are: each reads the count before any of them has written.          *)

(* What is mailed to a user opens his account no more often than it        *)
(* should. A link to reset the password works once for each request in     *)
(* flight, and no more links than requests are open at the same time; the  *)
(* same goes for the codes that verify an account and for those created in *)
(* an hour. The guesses a code answers are bounded for one request at a    *)
(* time only: guesses that overlap are counted as one, and nothing is said *)
(* of them.                                                                *)
MailedSecrets ==
  /\ ResetOncePer(Served) /\ OpenResetsWithin(Served)
  /\ SendsWithin(Served) /\ OpenCodesWithin(Served) /\ (Alone => GuessesWithin)

(* Of the logins, the failures within the window, none of which is         *)
(* forgotten by the pruning; and the wait told is when a login is allowed. *)
LoginsLimited ==
  part = "logins" => FailuresWithin(Served) /\ FailuresKept /\ WaitIsExact

(* An import does what its preview showed while nobody else writes, leaves *)
(* no two users with one key, fills a group once for each import in flight *)
(* and tells their credentials to the users that are there only.           *)
ImportsExplained ==
  part = "import" => FollowsPreview /\ ImportedOnce /\ SeatsWithin(Served) /\ CredentialsExplained

(* Of a case: a question is answered, an opinion is open, a commitment is  *)
(* reminded and gets an outcome once for each request in flight; answers   *)
(* belong to questions, and nothing is asked before the investigation.     *)
DeskLimits ==
  /\ AnsweredWithin(Served) /\ OpenCounselWithin(Served)
  /\ AnswersWhatWasAsked /\ NothingBeforeInvestigation
  /\ RemindersWithin(Served) /\ OutcomesWithin(Served)
  /\ Alone => RemindedWhilePending

(* A stored row has its file, a file without a row is what a cut request   *)
(* left, and the evidence uploaded to a case stays within its limit.       *)
FilesExplained ==
  part = "files" => RowsHaveFiles /\ OrphansExplained /\ UploadsWithin(Served)

-----------------------------------------------------------------------------
(* The properties that hold of one request at a time.                      *)

(* A change of password ends the sessions opened with the old one; a user  *)
(* keeps roles, and a teacher a profile, unless a request was cut; a       *)
(* communication expires after its publication, has the recipients of one  *)
(* request, and the feed shows it to the audience told to its author but   *)
(* for the differences AudienceExplained names.                            *)
RecordsAlone ==
  /\ part = "communications" => AudienceExplained
  /\ Alone => SessionsEndWithPassword /\ WholeUnlessCut /\ DatesInOrder /\ TargetsOfOneRequest

(* A start fails only after a miscoded permission, a rename, an edit of    *)
(* who the seeded user is or a cut, or in production without a good        *)
(* ADMIN_PASSWORD that it needs; it leaves no seeded user of production    *)
(* with the example password. The administrators keep what protects them   *)
(* and students their own schedule only; as they leave the factory, no     *)
(* role has both hands of a procedure.                                     *)
RolesKept ==
  part = "roles" =>
    /\ StartsUnlessBroken /\ ExampleReplaced
    /\ AdminKept /\ ScheduleOfStudents /\ RoutesFit

(* A receipt of a notice is written once; one request at a time, the first *)
(* reading and confirmation of a communication stay, and nobody reads what *)
(* is not published.                                                       *)
ReceiptsKept ==
  ReceiptKept /\ [][Alone => ReadingKept /\ OnlyPublishedIsRead]_officeVars

-----------------------------------------------------------------------------
(* Cases opened at once take numbers of their own, without gaps, and the   *)
(* letters to the guardians are about them.                                *)
CasesOnRecord == NumbersInOrder /\ LettersAreReal

(* The pages agree on the conduct that a student's cases add up to.        *)
ConductOnRecord == part = "conduct" => ConductAgrees

=============================================================================
