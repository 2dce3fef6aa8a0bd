----------------------------- MODULE AccountProofs -----------------------------
(***************************************************************************)
(* What an account is promised, for any number of registrations, admins,   *)
(* set-ups, logins, tokens and grants.  The parts of an account share no   *)
(* state, and each has an inductive invariant of its own.                  *)
(***************************************************************************)
EXTENDS Registration, SecondFactor, AccessTokens, IntegrationAccess, FiniteSetTheorems,
        TLAPS

(***************************************************************************)
(* Registration.                                                           *)
(***************************************************************************)

\* A registration under way has made neither a request nor an account.
RegInv ==
  \A r \in Registrations : reg[r] \in {"new", "checked", "unique"} =>
    row[r] = "none" /\ account[EmailOf[r]] # r

\* A pending request has never been approved.
PendingInv == \A r \in Registrations : row[r] = "pending" => r \notin linked

\* A decision under way is about a request that exists and that, unless two of
\* them have met, is pending and decided by nobody else.
WindowInv ==
  \A d \in Decisions : Deciding(d) =>
    /\ row[RequestOf[d]] # "none"
    /\ RequestOf[d] \notin crossed =>
         /\ row[RequestOf[d]] = "pending"
         /\ \A c \in Decisions :
              Deciding(c) /\ RequestOf[c] = RequestOf[d] => c = d

\* A decision that took effect is still visible, in itself or in another one.
DoneInv ==
  \A d \in Decisions : dec[d] = "done" =>
    row[RequestOf[d]] \in {"approved", "rejected"}

\* Of two requests for one address that exist or are about to, one has raced.
Claims(r) == reg[r] = "unique" \/ row[r] = "pending"

RaceInv ==
  \A q, r \in Registrations :
    q # r /\ EmailOf[q] = EmailOf[r] /\ Claims(q) /\ Claims(r) =>
      q \in raced \/ r \in raced

IInv ==
  /\ TypeOK
  /\ ApprovedOwnsAccount
  /\ RejectedStaysOut
  /\ DecidedOnce
  /\ RegInv
  /\ PendingInv
  /\ WindowInv
  /\ DoneInv
  /\ RaceInv

-----------------------------------------------------------------------------
LEMMA InitInv == Init => IInv
<1> SUFFICES ASSUME Init PROVE IInv
  OBVIOUS
<1> USE ConstantsAssumption DEF Init
<1>1. TypeOK
  BY DEF TypeOK
<1>2. \A r \in Registrations : account[EmailOf[r]] = NoOne
  OBVIOUS
<1>3. ApprovedOwnsAccount /\ RejectedStaysOut /\ RegInv
  BY <1>2 DEF ApprovedOwnsAccount, RejectedStaysOut, RegInv
<1>4. DecidedOnce /\ PendingInv /\ WindowInv /\ DoneInv
  BY DEF DecidedOnce, PendingInv, WindowInv, DoneInv, Deciding
<1>5. RaceInv
  BY DEF RaceInv, Claims
<1> QED
  BY <1>1, <1>3, <1>4, <1>5 DEF IInv

\* The steps of a registration leave decisions alone, and those of a decision
\* leave registrations alone: each lemma names what the other side keeps.
LEMMA DecisionsKept ==
  ASSUME IInv, UNCHANGED <<dec, crossed>>,
         \A r \in Registrations : row[r] # "none" => row'[r] = row[r]
  PROVE  WindowInv' /\ DoneInv' /\ DecidedOnce'
<1> USE ConstantsAssumption DEF IInv
<1>1. \A d \in Decisions : Deciding(d)' = Deciding(d)
  BY DEF Deciding
<1>2. WindowInv'
  BY <1>1 DEF WindowInv
<1>3. DoneInv'
  BY DEF DoneInv
<1>4. DecidedOnce'
  BY DEF DecidedOnce
<1> QED
  BY <1>2, <1>3, <1>4

LEMMA RegistrationsKept ==
  ASSUME IInv, UNCHANGED <<reg, raced>>,
         \A r \in Registrations : row'[r] # row[r] =>
           row[r] # "none" /\ row'[r] # "pending"
  PROVE  RaceInv'
<1>1. \A r \in Registrations : Claims(r)' => Claims(r)
  BY DEF Claims
<1> QED
  BY <1>1 DEF IInv, RaceInv

LEMMA CheckEmailStep ==
  ASSUME IInv, NEW r \in Registrations, CheckEmail(r) PROVE IInv'
<1> USE ConstantsAssumption DEF IInv, CheckEmail
<1>1. TypeOK'
  BY DEF TypeOK, rowVars
<1>2. ApprovedOwnsAccount' /\ RejectedStaysOut' /\ PendingInv'
  BY DEF ApprovedOwnsAccount, RejectedStaysOut, PendingInv, rowVars
<1>3. WindowInv' /\ DoneInv' /\ DecidedOnce'
  BY DecisionsKept DEF rowVars
<1>4. RegInv'
  BY DEF RegInv, TypeOK, rowVars
<1>5. \A q \in Registrations : Claims(q)' => Claims(q)
  BY DEF Claims, TypeOK, rowVars
<1>6. RaceInv'
  BY <1>5 DEF RaceInv
<1> QED
  BY <1>1, <1>2, <1>3, <1>4, <1>6

LEMMA CheckPendingStep ==
  ASSUME IInv, NEW r \in Registrations, CheckPending(r) PROVE IInv'
<1> USE ConstantsAssumption DEF IInv, CheckPending
<1>1. TypeOK'
  BY DEF TypeOK, rowVars
<1>2. ApprovedOwnsAccount' /\ RejectedStaysOut' /\ PendingInv'
  BY DEF ApprovedOwnsAccount, RejectedStaysOut, PendingInv, rowVars
<1>3. WindowInv' /\ DoneInv' /\ DecidedOnce'
  BY DecisionsKept DEF rowVars
<1>4. RegInv'
  BY DEF RegInv, TypeOK, rowVars
<1>5. RaceInv'
  <2>1. \A q \in Registrations : q # r /\ Claims(q)' => Claims(q)
    BY DEF Claims, TypeOK, rowVars
  <2>2. raced \subseteq raced'
    OBVIOUS
  <2>3. ASSUME NEW q \in Registrations, q # r, EmailOf[q] = EmailOf[r],
               Claims(q), Claims(r)'
        PROVE  r \in raced'
    <3>1. row[r] = "none" /\ row' = row
      BY DEF RegInv, rowVars
    <3>2. PendingFor(EmailOf[r]) = {}
      BY <2>3, <3>1 DEF Claims, TypeOK
    <3>3. q \in Creating(EmailOf[r])
      BY <2>3, <3>2 DEF Claims, PendingFor, Creating
    <3> QED
      BY <3>3
  <2> QED
    BY <2>1, <2>2, <2>3 DEF RaceInv
<1> QED
  BY <1>1, <1>2, <1>3, <1>4, <1>5

LEMMA CreateRequestStep ==
  ASSUME IInv, NEW r \in Registrations, CreateRequest(r) PROVE IInv'
<1> USE ConstantsAssumption DEF IInv, CreateRequest
<1>0. row[r] = "none" /\ account[EmailOf[r]] # r /\ r \notin linked
  BY DEF RegInv, ApprovedOwnsAccount
<1>1. TypeOK'
  BY DEF TypeOK
<1>2. ApprovedOwnsAccount' /\ RejectedStaysOut' /\ PendingInv'
  BY <1>0 DEF ApprovedOwnsAccount, RejectedStaysOut, PendingInv, TypeOK
<1>3. WindowInv' /\ DoneInv' /\ DecidedOnce'
  BY <1>0, DecisionsKept DEF TypeOK
<1>4. RegInv'
  BY DEF RegInv, TypeOK
<1>5. \A q \in Registrations : Claims(q)' => Claims(q)
  BY DEF Claims, TypeOK
<1>6. RaceInv'
  BY <1>5 DEF RaceInv
<1> QED
  BY <1>1, <1>2, <1>3, <1>4, <1>6

LEMMA CreateUserStep ==
  ASSUME IInv, NEW r \in Registrations, CreateUser(r) PROVE IInv'
<1> USE ConstantsAssumption DEF IInv, CreateUser
<1>0. row[r] = "none" /\ account[EmailOf[r]] # r
  BY DEF RegInv
<1>1. TypeOK'
  BY DEF TypeOK
<1>2. \A q \in Registrations : q # r =>
        (account'[EmailOf[q]] = q <=> account[EmailOf[q]] = q)
  BY DEF Taken, TypeOK
<1>3. ApprovedOwnsAccount' /\ RejectedStaysOut' /\ PendingInv'
  BY <1>0, <1>2 DEF ApprovedOwnsAccount, RejectedStaysOut, PendingInv
<1>4. WindowInv' /\ DoneInv' /\ DecidedOnce'
  BY DecisionsKept
<1>5. RegInv'
  BY <1>2 DEF RegInv, TypeOK
<1>6. \A q \in Registrations : Claims(q)' => Claims(q)
  BY DEF Claims, TypeOK
<1>7. RaceInv'
  BY <1>6 DEF RaceInv
<1> QED
  BY <1>1, <1>3, <1>4, <1>5, <1>7

LEMMA ReviewStep ==
  ASSUME IInv, NEW d \in Decisions, Review(d) PROVE IInv'
<1> USE ConstantsAssumption DEF IInv, Review
<1>1. TypeOK'
  BY DEF TypeOK, rowVars
<1>2. ApprovedOwnsAccount' /\ PendingInv' /\ RegInv'
  BY DEF ApprovedOwnsAccount, PendingInv, RegInv, rowVars
<1>3. crossed \subseteq crossed'
  OBVIOUS
<1>4. RejectedStaysOut'
  BY <1>3 DEF RejectedStaysOut, rowVars
<1>5. DecidedOnce' /\ DoneInv'
  BY <1>3 DEF DecidedOnce, DoneInv, TypeOK, rowVars
<1>6. WindowInv'
  <2>1. \A c \in Decisions : c # d => (Deciding(c)' <=> Deciding(c))
    BY DEF Deciding, TypeOK
  <2>2. ASSUME row[RequestOf[d]] # "pending" PROVE ~Deciding(d)'
    <3>1. dec'[d] = "refused"
      BY <2>2 DEF TypeOK
    <3> QED
      BY <3>1 DEF Deciding
  <2>3. ~Deciding(d)
    BY DEF Deciding
  <2>4. \A c \in Decisions :
          Deciding(c) /\ RequestOf[c] = RequestOf[d] => RequestOf[d] \in crossed'
    OBVIOUS
  <2> QED
    BY <1>3, <2>1, <2>2, <2>3, <2>4 DEF WindowInv, rowVars
<1>7. RaceInv'
  BY RegistrationsKept DEF rowVars
<1> QED
  BY <1>1, <1>2, <1>4, <1>5, <1>6, <1>7

LEMMA LookUpEmailStep ==
  ASSUME IInv, NEW d \in Decisions, LookUpEmail(d) PROVE IInv'
<1> USE ConstantsAssumption DEF IInv, LookUpEmail
<1>1. TypeOK'
  BY DEF TypeOK, rowVars
<1>2. ApprovedOwnsAccount' /\ PendingInv' /\ RegInv' /\ RejectedStaysOut'
  BY DEF ApprovedOwnsAccount, PendingInv, RegInv, RejectedStaysOut, rowVars
<1>3. DecidedOnce' /\ DoneInv'
  BY DEF DecidedOnce, DoneInv, TypeOK, rowVars
<1>4. \A c \in Decisions : Deciding(c)' => Deciding(c)
  BY DEF Deciding, TypeOK
<1>5. WindowInv'
  BY <1>4 DEF WindowInv, rowVars
<1>6. RaceInv'
  BY RegistrationsKept DEF rowVars
<1> QED
  BY <1>1, <1>2, <1>3, <1>5, <1>6

\* What both commits need: unless decisions have met, this one is the first to
\* take effect and the others about the request are not under way.
LEMMA Undisputed ==
  ASSUME IInv, NEW d \in Decisions, Deciding(d), RequestOf[d] \notin crossed
  PROVE  /\ row[RequestOf[d]] = "pending"
         /\ \A c \in Decisions : RequestOf[c] = RequestOf[d] /\ c # d =>
              ~Deciding(c) /\ dec[c] # "done"
  BY ConstantsAssumption DEF IInv, WindowInv, DoneInv

LEMMA ApproveStep ==
  ASSUME IInv, NEW d \in Decisions, Approve(d) PROVE IInv'
<1> USE ConstantsAssumption DEF IInv
<1> DEFINE r == RequestOf[d]
<1>0. r \in Registrations /\ Deciding(d) /\ row[r] # "none"
  BY DEF Approve, Deciding, WindowInv
<1>1. CASE dec' = [dec EXCEPT ![d] = "failed"] /\ UNCHANGED rowVars
  <2> USE <1>1 DEF Approve
  <2>1. TypeOK'
    BY DEF TypeOK, rowVars
  <2>2. ApprovedOwnsAccount' /\ PendingInv' /\ RegInv' /\ RejectedStaysOut'
    BY DEF ApprovedOwnsAccount, PendingInv, RegInv, RejectedStaysOut, rowVars
  <2>3. DecidedOnce' /\ DoneInv'
    BY DEF DecidedOnce, DoneInv, TypeOK, rowVars
  <2>4. \A c \in Decisions : Deciding(c)' => Deciding(c)
    BY DEF Deciding, TypeOK
  <2>5. WindowInv'
    BY <2>4 DEF WindowInv, rowVars
  <2>6. RaceInv'
    BY RegistrationsKept DEF rowVars
  <2> QED
    BY <2>1, <2>2, <2>3, <2>5, <2>6
<1>2. CASE /\ ~Taken(EmailOf[r]) /\ blank = {}
           /\ dec' = [dec EXCEPT ![d] = "done"]
           /\ account' = [account EXCEPT ![EmailOf[r]] = r]
           /\ blank' = blank \cup {EmailOf[r]}
           /\ row' = [row EXCEPT ![r] = "approved"]
           /\ linked' = linked \cup {r}
  <2> USE <1>0, <1>2
  <2>0. UNCHANGED <<restarts, signup, reg, crossed, raced>>
    BY DEF Approve
  <2>1. TypeOK'
    BY <2>0 DEF TypeOK
  <2>2. \A q \in Registrations :
          (account'[EmailOf[q]] = q <=> account[EmailOf[q]] = q \/ q = r)
    BY DEF Taken, TypeOK
  <2>3. ApprovedOwnsAccount'
    BY <2>2 DEF ApprovedOwnsAccount, TypeOK
  <2>4. RejectedStaysOut' /\ PendingInv'
    BY <2>0, <2>2 DEF RejectedStaysOut, PendingInv, TypeOK
  <2>5. RegInv'
    BY <2>0, <2>2 DEF RegInv, TypeOK
  <2>6. \A c \in Decisions : Deciding(c)' <=> Deciding(c) /\ c # d
    BY DEF Deciding, TypeOK
  <2>7. WindowInv'
    BY <2>0, <2>6, Undisputed DEF WindowInv, TypeOK
  <2>8. DoneInv'
    BY DEF DoneInv, TypeOK
  <2>9. DecidedOnce'
    BY <2>0, Undisputed DEF DecidedOnce, TypeOK
  <2>10. RaceInv'
    BY <2>0, RegistrationsKept DEF TypeOK
  <2> QED
    BY <2>1, <2>3, <2>4, <2>5, <2>7, <2>8, <2>9, <2>10
<1> QED
  BY <1>1, <1>2 DEF Approve

LEMMA RejectStep ==
  ASSUME IInv, NEW d \in Decisions, Reject(d) PROVE IInv'
<1> USE ConstantsAssumption DEF IInv, Reject
<1> DEFINE r == RequestOf[d]
<1>0. r \in Registrations /\ Deciding(d) /\ row[r] # "none"
  BY DEF Deciding, WindowInv
<1>1. TypeOK'
  BY DEF TypeOK
<1>2. ApprovedOwnsAccount'
  BY <1>0 DEF ApprovedOwnsAccount, TypeOK
<1>3. RejectedStaysOut'
  <2>1. r \notin crossed => account[EmailOf[r]] # r
    BY <1>0, Undisputed DEF PendingInv, ApprovedOwnsAccount
  <2> QED
    BY <2>1 DEF RejectedStaysOut, TypeOK
<1>4. PendingInv' /\ RegInv'
  BY <1>0 DEF PendingInv, RegInv, TypeOK
<1>5. \A c \in Decisions : Deciding(c)' <=> Deciding(c) /\ c # d
  BY DEF Deciding, TypeOK
<1>6. WindowInv'
  BY <1>0, <1>5, Undisputed DEF WindowInv, TypeOK
<1>7. DoneInv'
  BY DEF DoneInv, TypeOK
<1>8. DecidedOnce'
  BY <1>0, Undisputed DEF DecidedOnce, TypeOK
<1>9. RaceInv'
  BY <1>0, RegistrationsKept DEF TypeOK
<1> QED
  BY <1>1, <1>2, <1>3, <1>4, <1>6, <1>7, <1>8, <1>9

LEMMA RestartStep == ASSUME IInv, Restart PROVE IInv'
<1> USE ConstantsAssumption DEF IInv, Restart
<1>1. TypeOK'
  BY DEF TypeOK
<1>2. ApprovedOwnsAccount' /\ RejectedStaysOut' /\ PendingInv'
  BY DEF ApprovedOwnsAccount, RejectedStaysOut, PendingInv
<1>3. RegInv'
  BY DEF RegInv, TypeOK
<1>4. \A d \in Decisions : ~Deciding(d)' /\ (dec'[d] = "done" <=> dec[d] = "done")
  BY DEF Deciding, TypeOK
<1>5. WindowInv' /\ DoneInv' /\ DecidedOnce'
  BY <1>4 DEF WindowInv, DoneInv, DecidedOnce
<1>6. \A r \in Registrations : Claims(r)' => Claims(r)
  BY DEF Claims, TypeOK
<1>7. RaceInv'
  BY <1>6 DEF RaceInv
<1> QED
  BY <1>1, <1>2, <1>3, <1>5, <1>7

LEMMA StutterStep == ASSUME IInv, UNCHANGED vars PROVE IInv'
<1> USE DEF IInv, vars, rowVars
<1>1. TypeOK' /\ ApprovedOwnsAccount' /\ RejectedStaysOut' /\ DecidedOnce'
  BY DEF TypeOK, ApprovedOwnsAccount, RejectedStaysOut, DecidedOnce
<1>2. RegInv' /\ PendingInv' /\ DoneInv' /\ RaceInv'
  BY DEF RegInv, PendingInv, DoneInv, RaceInv, Claims
<1>3. WindowInv'
  BY DEF WindowInv, Deciding
<1> QED
  BY <1>1, <1>2, <1>3

\* The invariant the theorems below are read off: it relates every registration
\* and decision under way to the rows it will write.
THEOREM Inductive == Spec => []IInv
<1>1. IInv /\ [Next]_vars => IInv'
  <2> SUFFICES ASSUME IInv, [Next]_vars PROVE IInv'
    OBVIOUS
  <2>1. ASSUME NEW r \in Registrations, Register(r) PROVE IInv'
    BY <2>1, CheckEmailStep, CheckPendingStep, CreateRequestStep, CreateUserStep
       DEF Register
  <2>2. ASSUME NEW d \in Decisions, Decide(d) PROVE IInv'
    BY <2>2, ReviewStep, LookUpEmailStep, ApproveStep, RejectStep DEF Decide
  <2> QED
    BY <2>1, <2>2, RestartStep, StutterStep DEF Next
<1> QED
  BY <1>1, InitInv, PTL DEF Spec

\* Every variable keeps its type, and no two users are without a username.
THEOREM TypeCorrect == Spec => []TypeOK
  BY Inductive, PTL DEF IInv

\* An account made by an approval has the data of the one approved request, and
\* of several requests for an address at most one is approved.
THEOREM ApprovedOwns == Spec => []ApprovedOwnsAccount
  BY Inductive, PTL DEF IInv

\* Whoever was rejected has no account unless two decisions on the request met.
THEOREM RejectedOut == Spec => []RejectedStaysOut
  BY Inductive, PTL DEF IInv

\* A request is decided once unless two decisions on it met.
THEOREM DecidedOnceOnly == Spec => []DecidedOnce
  BY Inductive, PTL DEF IInv

\* No two requests for an address are pending unless two registrations raced.
THEOREM PendingOnceOnly == Spec => []PendingOnce
<1>1. RaceInv => PendingOnce
  BY DEF RaceInv, PendingOnce, Claims
<1> QED
  BY <1>1, Inductive, PTL DEF IInv

\* The decisions on registrations hold, all together (Approve, Reject, Register).
THEOREM DecisionsHeld == Spec => []DecisionsHold
<1>1. IInv => DecisionsHold
  BY DEF IInv, RaceInv, PendingOnce, Claims, DecisionsHold
<1>2. QED
  BY <1>1, Inductive, PTL

-----------------------------------------------------------------------------
(***************************************************************************)
(* The second factor.                                                      *)
(***************************************************************************)

\* The codes of a set-up that has not begun do not exist, and none of one that
\* goes undisturbed is removed.
SetUpInv ==
  \A c \in Codes :
    /\ confirm[c[1]] = "new" => codes[c] = "none"
    /\ confirm[c[1]] = "enabled" /\ ~mixed => codes[c] # "deleted"

\* Unless they have met, set-ups and switchings off alternate: a set-up under way
\* is the only one, its secret is the user's and the factor has not been off since
\* it began; during a switching off there is neither a secret nor a set-up.
ApartInv ==
  ~mixed =>
    /\ \A s \in Confirming : factor = s /\ s \in setups
    /\ Disabling # {} => factor = NoFactor

\* Only a code is looked for, a found one exists, and one that has let somebody in
\* is used unless its mark was lost.
OfferInv ==
  \A l \in Logins :
    /\ login[l] \in {"looking", "found"} \/ l \in letIn => Offer[l] \in Codes
    /\ login[l] = "found" => codes[Offer[l]] # "none"
    /\ l \in letIn => /\ login[l] \in {"passed", "in", "failed"}
                      /\ Offer[l] \in contested
                           \/ codes[Offer[l]] \in {"used", "deleted"}

\* The codes of a set-up are created in their order.
CreatedInv ==
  \A s \in Confirms : \E k \in 0 .. CodeCount :
    \A n \in 1 .. CodeCount : codes[<<s, n>>] = "none" <=> k < n

FactorInv ==
  /\ CodesHold
  /\ CreatedInv
  /\ SetUpInv
  /\ ApartInv
  /\ OfferInv

-----------------------------------------------------------------------------
LEMMA FactorInitInv == FactorInit => FactorInv
<1> SUFFICES ASSUME FactorInit PROVE FactorInv
  OBVIOUS
<1> USE FactorAssumption DEF FactorInit
<1>1. FactorTypeOK
  BY DEF FactorTypeOK
<1>2. CodeWorksOnce /\ OfferInv
  BY DEF CodeWorksOnce, OfferInv
<1>3. NoCodesLeftOver /\ ShownCodesWork
  BY DEF NoCodesLeftOver, ShownCodesWork, Unused
<1>4. \A c \in Codes : c[1] \in Confirms
  BY DEF Codes
<1>5. SetUpInv /\ ApartInv
  BY <1>4 DEF SetUpInv, ApartInv, Confirming, Disabling
<1>6. CreatedInv
  <2>1. \A s \in Confirms, n \in 1 .. CodeCount : <<s, n>> \in Codes
    BY DEF Codes
  <2>2. \A c \in Codes : codes[c] = "none"
    OBVIOUS
  <2>3. ASSUME NEW s \in Confirms, NEW n \in 1 .. CodeCount
        PROVE  codes[<<s, n>>] = "none" /\ 0 < n
    <3>1. <<s, n>> \in Codes
      BY <2>1
    <3>2. codes[<<s, n>>] = "none"
      BY <2>2, <3>1, Zenon
    <3> QED
      BY <3>2
  <2>4. 0 \in 0 .. CodeCount
    OBVIOUS
  <2> QED
    BY <2>3, <2>4 DEF CreatedInv
<1> QED
  BY <1>1, <1>2, <1>3, <1>5, <1>6 DEF FactorInv, CodesHold

\* The steps of a set-up leave logins alone, and those of a login leave set-ups
\* alone: each lemma names what may happen to the codes meanwhile.
LEMMA LoginsKept ==
  ASSUME FactorInv, UNCHANGED <<login, letIn, contested>>,
         \A c \in Codes :
           \/ codes'[c] = codes[c]
           \/ codes[c] = "none" /\ codes'[c] = "unused"
           \/ codes[c] # "none" /\ codes'[c] = "deleted"
  PROVE  CodeWorksOnce' /\ OfferInv'
<1>1. CodeWorksOnce'
  BY DEF FactorInv, CodesHold, CodeWorksOnce
<1>2. OfferInv'
  BY DEF FactorInv, OfferInv
<1> QED
  BY <1>1, <1>2

LEMMA OrderKept ==
  ASSUME FactorInv,
         \A c \in Codes : codes'[c] = "none" <=> codes[c] = "none"
  PROVE  CreatedInv'
<1>1. \A s \in Confirms, n \in 1 .. CodeCount : <<s, n>> \in Codes
  BY DEF Codes
<1> QED
  BY <1>1 DEF FactorInv, CreatedInv

LEMMA SetUpsKept ==
  ASSUME FactorInv, UNCHANGED <<factor, setups, confirm, disable, mixed>>,
         \A c \in Codes : \/ codes'[c] = codes[c]
                          \/ codes[c] = "unused" /\ codes'[c] = "used"
  PROVE  NoCodesLeftOver' /\ ShownCodesWork' /\ SetUpInv' /\ ApartInv' /\ CreatedInv'
<1> USE DEF FactorInv, CodesHold
<1>1. NoCodesLeftOver'
  BY DEF NoCodesLeftOver, Unused, Disabling
<1>2. ShownCodesWork'
  BY DEF ShownCodesWork, CodesOf
<1>3. SetUpInv'
  BY DEF SetUpInv
<1>4. ApartInv'
  BY DEF ApartInv, Confirming, Disabling
<1>5. CreatedInv'
  BY OrderKept
<1> QED
  BY <1>1, <1>2, <1>3, <1>4, <1>5

LEMMA EnableFactorStep ==
  ASSUME FactorInv, NEW s \in Confirms, EnableFactor(s) PROVE FactorInv'
<1> USE FactorAssumption DEF FactorInv, CodesHold, EnableFactor
<1>1. FactorTypeOK'
  BY DEF FactorTypeOK
<1>2. CodeWorksOnce' /\ OfferInv' /\ CreatedInv'
  BY LoginsKept, OrderKept
<1>3. factor' = s /\ s # NoFactor /\ confirm'[s] = "enabled"
  BY DEF FactorTypeOK
<1>4. NoCodesLeftOver'
  BY DEF NoCodesLeftOver, Unused, Disabling, FactorTypeOK
<1>5. ShownCodesWork'
  BY <1>3 DEF ShownCodesWork
<1>6. SetUpInv'
  <2>1. \A c \in Codes : c[1] \in Confirms
    BY DEF Codes
  <2> QED
    BY <2>1 DEF SetUpInv, FactorTypeOK
<1>7. ApartInv'
  <2> SUFFICES ASSUME ~mixed'
               PROVE  /\ \A t \in Confirming' : factor' = t /\ t \in setups'
                      /\ Disabling' # {} => factor' = NoFactor
    BY DEF ApartInv
  <2>1. Confirming = {} /\ Disabling = {}
    BY DEF FactorTypeOK
  <2>2. Confirming' = {s} /\ Disabling' = {}
    BY <2>1 DEF Confirming, Disabling, FactorTypeOK
  <2> QED
    BY <1>3, <2>2
<1> QED
  BY <1>1, <1>2, <1>4, <1>5, <1>6, <1>7

LEMMA CreateCodeStep ==
  ASSUME FactorInv, NEW s \in Confirms, CreateCode(s) PROVE FactorInv'
<1> USE FactorAssumption DEF FactorInv, CodesHold, CreateCode
<1>1. PICK c \in NextCode(s) : codes' = [codes EXCEPT ![c] = "unused"]
  OBVIOUS
<1>2. c \in Codes /\ c[1] = s /\ codes[c] = "none"
  BY DEF NextCode, CodesOf
<1>3. \A b \in Codes : codes'[b] = IF b = c THEN "unused" ELSE codes[b]
  BY <1>1 DEF FactorTypeOK
<1>4. FactorTypeOK'
  BY <1>1 DEF FactorTypeOK
<1>5. CodeWorksOnce' /\ OfferInv'
  BY <1>2, <1>3, LoginsKept
<1>6. s \in Confirming
  BY DEF Confirming
<1>7. NoCodesLeftOver'
  BY <1>2, <1>3, <1>6 DEF NoCodesLeftOver, ApartInv, Unused, Disabling
<1>8. ShownCodesWork'
  BY <1>3 DEF ShownCodesWork, CodesOf
<1>9. SetUpInv'
  BY <1>2, <1>3 DEF SetUpInv
<1>10. ApartInv'
  BY DEF ApartInv, Confirming, Disabling
<1>11. CreatedInv'
  <2> SUFFICES ASSUME NEW t \in Confirms
               PROVE  \E k \in 0 .. CodeCount : \A n \in 1 .. CodeCount :
                        codes'[<<t, n>>] = "none" <=> k < n
    BY DEF CreatedInv
  <2>1. PICK k \in 0 .. CodeCount : \A n \in 1 .. CodeCount :
          codes[<<t, n>>] = "none" <=> k < n
    BY DEF CreatedInv
  <2>2. \A n \in 1 .. CodeCount : <<t, n>> \in Codes
    BY DEF Codes
  <2>3. CASE t # s
    <3>1. \A n \in 1 .. CodeCount : <<t, n>> # c
      BY <1>2, <2>3
    <3> QED
      BY <1>3, <2>1, <2>2, <3>1
  <2>4. CASE t = s
    <3>1. c[2] \in 1 .. CodeCount /\ c = <<s, c[2]>>
      BY <1>2 DEF Codes
    <3>2. k < c[2]
      BY <1>2, <2>1, <2>4, <3>1
    <3>3. k + 1 \in 1 .. CodeCount /\ <<s, k + 1>> \in CodesOf(s)
      BY <2>2, <2>4, <3>1, <3>2 DEF CodesOf
    <3>4. codes[<<s, k + 1>>] = "none"
      BY <2>1, <2>4, <3>3
    <3>5. c[2] <= k + 1
      BY <3>3, <3>4 DEF NextCode
    <3>6. c = <<s, k + 1>>
      BY <3>1, <3>2, <3>5
    <3>7. \A n \in 1 .. CodeCount : codes'[<<t, n>>] = "none" <=> k + 1 < n
      BY <1>3, <2>1, <2>2, <2>4, <3>6
    <3>8. k + 1 \in 0 .. CodeCount
      BY <3>3
    <3> HIDE DEF CreateCode, FactorInv
    <3> QED
      BY <3>7, <3>8, Zenon
  <2> QED
    BY <2>3, <2>4
<1> QED
  BY <1>4, <1>5, <1>7, <1>8, <1>9, <1>10, <1>11

LEMMA ShowCodesStep ==
  ASSUME FactorInv, NEW s \in Confirms, ShowCodes(s) PROVE FactorInv'
<1> USE FactorAssumption DEF FactorInv, CodesHold, ShowCodes
<1>1. FactorTypeOK'
  BY DEF FactorTypeOK
<1>2. CodeWorksOnce' /\ OfferInv' /\ CreatedInv'
  BY LoginsKept, OrderKept
<1>3. NoCodesLeftOver'
  BY DEF NoCodesLeftOver, Unused, Disabling
<1>4. ShownCodesWork'
  <2> SUFFICES ASSUME NEW t \in Confirms, factor = t, confirm'[t] = "shown", ~mixed,
                      NEW c \in CodesOf(t)
               PROVE  codes[c] \in {"unused", "used"}
    BY DEF ShownCodesWork, CodesOf
  <2>1. CASE t # s
    BY <2>1 DEF ShownCodesWork, FactorTypeOK
  <2>2. CASE t = s
    <3>1. codes[c] # "none"
      <4> SUFFICES ASSUME codes[c] = "none" PROVE FALSE
        OBVIOUS
      <4>1. PICK k \in 0 .. CodeCount : \A n \in 1 .. CodeCount :
              codes[<<s, n>>] = "none" <=> k < n
        BY DEF CreatedInv
      <4>2. c[2] \in 1 .. CodeCount /\ c = <<s, c[2]>>
        BY <2>2 DEF CodesOf, Codes
      <4>3. k + 1 \in 1 .. CodeCount
        BY <4>1, <4>2
      <4>4. <<s, k + 1>> \in CodesOf(s) /\ codes[<<s, k + 1>>] = "none"
        BY <4>1, <4>3 DEF CodesOf, Codes
      <4>5. \A b \in CodesOf(s) :
              b[2] \in 1 .. CodeCount /\ b = <<s, b[2]>>
        BY DEF CodesOf, Codes
      <4>6. \A b \in CodesOf(s) : codes[b] = "none" => k + 1 <= b[2]
        BY <4>1, <4>5
      <4>7. <<s, k + 1>> \in NextCode(s)
        BY <4>4, <4>6 DEF NextCode
      <4> QED
        BY <4>7
    <3>2. c \in Codes /\ codes[c] # "deleted"
      BY <2>2 DEF CodesOf, SetUpInv
    <3> QED
      BY <3>1, <3>2 DEF FactorTypeOK
  <2> QED
    BY <2>1, <2>2
<1>5. SetUpInv'
  BY DEF SetUpInv, FactorTypeOK, Codes
<1>6. ApartInv'
  BY DEF ApartInv, Confirming, Disabling, FactorTypeOK
<1> QED
  BY <1>1, <1>2, <1>3, <1>4, <1>5, <1>6

LEMMA ConfirmFailsStep ==
  ASSUME FactorInv, NEW s \in Confirms, ConfirmFails(s) PROVE FactorInv'
<1> USE FactorAssumption DEF FactorInv, CodesHold, ConfirmFails
<1>1. FactorTypeOK'
  BY DEF FactorTypeOK
<1>2. CodeWorksOnce' /\ OfferInv' /\ CreatedInv'
  BY LoginsKept, OrderKept
<1>3. NoCodesLeftOver' /\ ShownCodesWork' /\ ApartInv'
  BY DEF NoCodesLeftOver, ShownCodesWork, ApartInv
<1>4. SetUpInv'
  BY DEF SetUpInv, FactorTypeOK, Codes
<1> QED
  BY <1>1, <1>2, <1>3, <1>4

LEMMA DisableFactorStep ==
  ASSUME FactorInv, NEW d \in Disables, DisableFactor(d) PROVE FactorInv'
<1> USE FactorAssumption DEF FactorInv, CodesHold, DisableFactor
<1>1. FactorTypeOK'
  BY DEF FactorTypeOK
<1>2. CodeWorksOnce' /\ OfferInv' /\ CreatedInv'
  BY LoginsKept, OrderKept
<1>3. d \in Disabling'
  BY DEF Disabling, FactorTypeOK
<1>4. NoCodesLeftOver'
  BY <1>3 DEF NoCodesLeftOver
<1>5. ShownCodesWork'
  BY DEF ShownCodesWork
<1>6. SetUpInv'
  BY DEF SetUpInv, FactorTypeOK
<1>7. ApartInv'
  <2>1. ~mixed' => Confirming = {}
    BY DEF FactorTypeOK
  <2> QED
    BY <2>1 DEF ApartInv, Confirming
<1> QED
  BY <1>1, <1>2, <1>4, <1>5, <1>6, <1>7

LEMMA RemoveCodesStep ==
  ASSUME FactorInv, NEW d \in Disables, RemoveCodes(d) PROVE FactorInv'
<1> USE FactorAssumption DEF FactorInv, CodesHold, RemoveCodes
<1>1. FactorTypeOK'
  BY DEF FactorTypeOK
<1>2. \A c \in Codes : codes'[c] = IF codes[c] \in {"unused", "used"}
                                   THEN "deleted" ELSE codes[c]
  OBVIOUS
<1>3. CodeWorksOnce' /\ OfferInv' /\ CreatedInv'
  BY <1>2, LoginsKept, OrderKept
<1>4. NoCodesLeftOver'
  BY <1>2 DEF NoCodesLeftOver, Unused
<1>5. d \in Disabling
  BY DEF Disabling
<1>6. ~mixed => factor = NoFactor /\ Confirming = {}
  BY <1>5 DEF ApartInv, Confirming
<1>7. ShownCodesWork'
  BY <1>6 DEF ShownCodesWork
<1>8. SetUpInv'
  BY <1>2, <1>6 DEF SetUpInv, Confirming, Codes
<1>9. ApartInv'
  BY <1>6 DEF ApartInv, Confirming
<1> QED
  BY <1>1, <1>3, <1>4, <1>7, <1>8, <1>9

LEMMA DisableFailsStep ==
  ASSUME FactorInv, NEW d \in Disables, DisableFails(d) PROVE FactorInv'
<1> USE FactorAssumption DEF FactorInv, CodesHold, DisableFails
<1>1. FactorTypeOK'
  BY DEF FactorTypeOK
<1>2. CodeWorksOnce' /\ OfferInv' /\ CreatedInv'
  BY LoginsKept, OrderKept
<1>3. NoCodesLeftOver' /\ ShownCodesWork' /\ ApartInv'
  BY DEF NoCodesLeftOver, ShownCodesWork, ApartInv
<1>4. SetUpInv'
  BY DEF SetUpInv
<1> QED
  BY <1>1, <1>2, <1>3, <1>4

LEMMA FindCodeStep ==
  ASSUME FactorInv, NEW l \in Logins, FindCode(l) PROVE FactorInv'
<1> USE FactorAssumption DEF FactorInv, CodesHold, FindCode
<1>1. FactorTypeOK'
  BY DEF FactorTypeOK, OfferInv
<1>2. NoCodesLeftOver' /\ ShownCodesWork' /\ SetUpInv' /\ ApartInv' /\ CreatedInv'
  BY SetUpsKept
<1>3. login'[l] = "found" => codes[Offer[l]] = "unused" /\ Offer[l] \in Codes
  BY DEF Unused, FactorTypeOK
<1>4. CodeWorksOnce'
  <2>1. l \notin letIn
    BY DEF OfferInv
  <2>2. ASSUME NEW k \in Logins, k # l, Offer[k] = Offer[l], login'[l] = "found",
               k \in letIn \/ login[k] = "found"
        PROVE  Offer[l] \in contested'
    <3>1. CASE login[k] = "found"
      <4>1. k \in Finders(Offer[l])
        BY <2>2, <3>1 DEF Finders
      <4> QED
        BY <4>1
    <3>2. CASE k \in letIn
      BY <1>3, <2>2, <3>2 DEF OfferInv
    <3> QED
      BY <2>2, <3>1, <3>2
  <2> QED
    BY <2>1, <2>2 DEF CodeWorksOnce, FactorTypeOK
<1>5. OfferInv'
  <2> SUFFICES ASSUME NEW k \in Logins
               PROVE  /\ login'[k] \in {"looking", "found"} \/ k \in letIn =>
                           Offer[k] \in Codes
                      /\ login'[k] = "found" => codes[Offer[k]] # "none"
                      /\ k \in letIn => /\ login'[k] \in {"passed", "in", "failed"}
                                        /\ Offer[k] \in contested'
                                             \/ codes[Offer[k]] \in {"used", "deleted"}
    BY DEF OfferInv
  <2>1. CASE k = l
    BY <1>3, <2>1 DEF OfferInv, FactorTypeOK
  <2>2. CASE k # l
    BY <2>2 DEF OfferInv, FactorTypeOK
  <2> QED
    BY <2>1, <2>2
<1> QED
  BY <1>1, <1>2, <1>4, <1>5

LEMMA MarkCodeStep ==
  ASSUME FactorInv, NEW l \in Logins, MarkCode(l) PROVE FactorInv'
<1> USE FactorAssumption DEF FactorInv, CodesHold, MarkCode
<1>1. Offer[l] \in Codes /\ codes[Offer[l]] # "none"
  BY DEF OfferInv
<1>2. \A c \in Codes :
        \/ codes'[c] = codes[c]
        \/ c = Offer[l] /\ codes[c] = "unused" /\ codes'[c] = "used"
  BY DEF FactorTypeOK
<1>3. FactorTypeOK'
  BY <1>1 DEF FactorTypeOK
<1>4. NoCodesLeftOver' /\ ShownCodesWork' /\ SetUpInv' /\ ApartInv' /\ CreatedInv'
  BY <1>2, SetUpsKept
<1>5. CodeWorksOnce'
  <2>1. contested \subseteq contested'
    OBVIOUS
  <2>2. \A k \in Logins : k \in letIn' \/ login'[k] = "found" =>
                            k \in letIn \/ login[k] = "found"
    BY DEF FactorTypeOK
  <2> QED
    BY <2>1, <2>2 DEF CodeWorksOnce
<1>6. Offer[l] \in contested' \/ codes'[Offer[l]] \in {"used", "deleted"}
  BY <1>1 DEF FactorTypeOK
<1>7. OfferInv'
  <2> SUFFICES ASSUME NEW k \in Logins
               PROVE  /\ login'[k] \in {"looking", "found"} \/ k \in letIn' =>
                           Offer[k] \in Codes
                      /\ login'[k] = "found" => codes'[Offer[k]] # "none"
                      /\ k \in letIn' =>
                           /\ login'[k] \in {"passed", "in", "failed"}
                           /\ Offer[k] \in contested'
                                \/ codes'[Offer[k]] \in {"used", "deleted"}
    BY DEF OfferInv
  <2>1. CASE k = l
    BY <1>1, <1>6, <2>1 DEF FactorTypeOK
  <2>2. CASE k # l
    <3>1. login'[k] = login[k] /\ (k \in letIn' <=> k \in letIn)
      BY <2>2 DEF FactorTypeOK
    <3> QED
      BY <1>2, <3>1 DEF OfferInv
  <2> QED
    BY <2>1, <2>2
<1> QED
  BY <1>3, <1>4, <1>5, <1>7

\* The other steps of a login do not touch the codes.
LEMMA OtherLoginStep ==
  ASSUME FactorInv, NEW l \in Logins,
         ReadUser(l) \/ CreateSession(l) \/ LoginFails(l) \/ Logout(l)
  PROVE  FactorInv'
<1> USE FactorAssumption DEF FactorInv, CodesHold
<1>1. UNCHANGED <<factor, codes, confirm, disable, setups, letIn, contested,
                  mixed>>
  BY DEF ReadUser, CreateSession, LoginFails, Logout
<1>2. FactorTypeOK'
  <2>1. CASE ReadUser(l)
    BY <2>1 DEF FactorTypeOK, ReadUser
  <2>2. CASE CreateSession(l)
    BY <2>2 DEF FactorTypeOK, CreateSession
  <2>3. CASE LoginFails(l)
    BY <2>3 DEF FactorTypeOK, LoginFails
  <2>4. CASE Logout(l)
    BY <2>4 DEF FactorTypeOK, Logout
  <2> QED
    BY <2>1, <2>2, <2>3, <2>4
<1>3. NoCodesLeftOver' /\ ShownCodesWork' /\ SetUpInv' /\ ApartInv' /\ CreatedInv'
  BY <1>1, SetUpsKept
<1>4. \A k \in Logins :
        \/ login'[k] = login[k]
        \/ login[k] = "new" /\ login'[k] \in {"passed", "refused"}
        \/ login[k] = "new" /\ login'[k] = "looking" /\ Offer[k] \in Codes
        \/ login[k] = "passed" /\ login'[k] \in {"in", "failed"}
  BY DEF ReadUser, CreateSession, LoginFails, Logout, FactorTypeOK
<1>5. CodeWorksOnce'
  BY <1>1, <1>4 DEF CodeWorksOnce
<1>6. OfferInv'
  BY <1>1, <1>4 DEF OfferInv
<1> QED
  BY <1>2, <1>3, <1>5, <1>6

\* A recovery code lets one login in, none outlives the switching off of the factor
\* (those of a set-up that another one replaces stay), and every code the user was
\* shown for the factor that is on works, unless the named requests overlap or fail halfway,
\* for any number of set-ups, codes and logins (ConfirmTwoFactor,
\* DisableTwoFactor, LoginUser).
THEOREM CodesHeld == FactorSpec => []CodesHold
<1>1. FactorInv /\ [FactorNext]_factorVars => FactorInv'
  <2> SUFFICES ASSUME FactorInv, [FactorNext]_factorVars PROVE FactorInv'
    OBVIOUS
  <2>1. ASSUME NEW s \in Confirms, Confirm(s) PROVE FactorInv'
    BY <2>1, EnableFactorStep, CreateCodeStep, ShowCodesStep, ConfirmFailsStep
    DEF Confirm
  <2>2. ASSUME NEW d \in Disables, Disable(d) PROVE FactorInv'
    BY <2>2, DisableFactorStep, RemoveCodesStep, DisableFailsStep DEF Disable
  <2>3. ASSUME NEW l \in Logins, Login(l) \/ Logout(l) PROVE FactorInv'
    BY <2>3, FindCodeStep, MarkCodeStep, OtherLoginStep DEF Login
  <2>4. CASE UNCHANGED factorVars
    <3>1. FactorTypeOK'
      BY <2>4 DEF factorVars, FactorInv, CodesHold, FactorTypeOK
    <3>2. CodeWorksOnce' /\ OfferInv'
      BY <2>4, LoginsKept DEF factorVars
    <3>3. NoCodesLeftOver' /\ ShownCodesWork' /\ SetUpInv' /\ ApartInv' /\ CreatedInv'
      BY <2>4, SetUpsKept DEF factorVars
    <3> QED
      BY <3>1, <3>2, <3>3 DEF FactorInv, CodesHold
  <2> QED
    BY <2>1, <2>2, <2>3, <2>4 DEF FactorNext
<1>2. FactorInv => CodesHold
  BY DEF FactorInv
<1> QED
  BY FactorInitInv, <1>1, <1>2, PTL DEF FactorSpec

-----------------------------------------------------------------------------
(***************************************************************************)
(* Access tokens.                                                          *)
(***************************************************************************)

\* A token has a row once the request that creates it has got that far.
RowInv ==
  /\ \A c \in Creates : token[c] # "none" <=> create[c] = "created"
  /\ \A a \in Auths : token[a] # "none" <=> auth[a] \in {"inserted", "done"}

\* A request that has counted finds the limit as it counted it.
RoomInv ==
  \A c \in Counted : c \notin overtaken => Cardinality(Active) < TokenLimit

\* A result is an error or the token of a browser that is done, for its client.
Kept(e) ==
  \/ e.value = Error
  \/ /\ e.value \in Auths
     /\ auth[e.value] = "done"
     /\ StateOf[e.value] = e.state

KeptInv ==
  /\ \A e \in results : Kept(e)
  /\ \A p \in Polls : \A e \in handed[p] : Kept(e) /\ e.state = PollState[p]

\* What a poll was handed neither waits any more nor has gone to another one.
HandedInv ==
  \A p \in Polls :
    /\ poll[p] = "new" => handed[p] = {}
    /\ \A e \in handed[p] : e.value # Error =>
         /\ \A f \in results : f.value # e.value
         /\ \A q \in Polls : q # p => \A f \in handed[q] : f.value # e.value

TokenInv ==
  /\ TokenTypeOK
  /\ RowInv
  /\ RoomInv
  /\ KeptInv
  /\ HandedInv

-----------------------------------------------------------------------------
LEMMA TokenInitInv == TokenInit => TokenInv
<1> SUFFICES ASSUME TokenInit PROVE TokenInv
  OBVIOUS
<1> USE TokenAssumption DEF TokenInit
<1>1. TokenTypeOK
  BY DEF TokenTypeOK, Tokens
<1>2. RowInv
  BY DEF RowInv, Tokens
<1>3. RoomInv
  BY DEF RoomInv, Counted
<1>4. KeptInv /\ HandedInv
  BY DEF KeptInv, HandedInv
<1> QED
  BY <1>1, <1>2, <1>3, <1>4 DEF TokenInv

LEMMA HandedRight == TokenInv => HandedOnce
<1> SUFFICES ASSUME TokenInv PROVE HandedOnce
  OBVIOUS
<1>1. ASSUME NEW p \in Polls, NEW q \in Polls, p # q, NEW e \in handed[p] \cap handed[q]
      PROVE  e.value = Error
  BY <1>1 DEF TokenInv, HandedInv
<1>2. ASSUME NEW p \in Polls, NEW e \in handed[p]
      PROVE  /\ e.state = PollState[p]
             /\ e.value # Error => StateOf[e.value] = e.state /\ token[e.value] # "none"
  BY <1>2 DEF TokenInv, KeptInv, Kept, RowInv
<1> QED
  BY <1>1, <1>2 DEF HandedOnce

\* Results do not care for the rows of tokens, as long as browsers go on: a step
\* that leaves results alone keeps what is said of them.
LEMMA ResultsKept ==
  ASSUME TokenInv, UNCHANGED <<results, handed, poll>>,
         \A a \in Auths : auth[a] = "done" => auth'[a] = "done"
  PROVE  KeptInv' /\ HandedInv'
<1>1. KeptInv'
  BY DEF TokenInv, KeptInv, Kept
<1>2. HandedInv'
  BY DEF TokenInv, HandedInv
<1> QED
  BY <1>1, <1>2

\* A step that activates no token leaves the room there was.
LEMMA RoomKept ==
  ASSUME TokenInv, overtaken' = overtaken,
         \A t \in Tokens : token'[t] = "active" => token[t] = "active",
         \A c \in Creates : create'[c] = "counted" /\ c \notin overtaken =>
           create[c] = "counted" \/ Cardinality(Active) < TokenLimit
  PROVE  RoomInv'
<1> USE TokenAssumption DEF TokenInv
<1>1. Active' \in SUBSET Active /\ IsFiniteSet(Active)
  BY FS_Subset DEF Active
<1>2. /\ Cardinality(Active') <= Cardinality(Active)
      /\ Cardinality(Active) \in Nat
      /\ Cardinality(Active') \in Nat
  BY <1>1, FS_Subset, FS_CardinalityType
<1>3. ASSUME NEW c \in Creates, create'[c] = "counted", c \notin overtaken
      PROVE  Cardinality(Active) < TokenLimit
  BY <1>3 DEF RoomInv, Counted
<1> QED
  BY <1>2, <1>3 DEF RoomInv, Counted

LEMMA CountStep ==
  ASSUME TokenInv, NEW c \in Creates, Count(c) PROVE TokenInv'
<1> USE TokenAssumption DEF TokenInv, Count
<1>1. TokenTypeOK'
  BY DEF TokenTypeOK
<1>2. RowInv'
  BY DEF RowInv, TokenTypeOK
<1>3. RoomInv'
  <2>1. IsFiniteSet(Active)
    BY FS_Subset DEF Active
  <2>2. Cardinality(Active) \in Nat
    BY <2>1, FS_CardinalityType
  <2>3. \A d \in Creates : create'[d] = "counted" =>
          create[d] = "counted" \/ Cardinality(Active) < TokenLimit
    BY <2>2 DEF TokenTypeOK
  <2> QED
    BY <2>3, RoomKept
<1>4. KeptInv' /\ HandedInv'
  BY ResultsKept
<1> QED
  BY <1>1, <1>2, <1>3, <1>4

LEMMA InsertStep ==
  ASSUME TokenInv, NEW c \in Creates, Insert(c) PROVE TokenInv'
<1> USE TokenAssumption DEF TokenInv, Insert
<1>1. PICK s \in {"active", "expired"} : token' = [token EXCEPT ![c] = s]
  OBVIOUS
<1>2. c \in Tokens
  BY DEF Tokens
<1>3. TokenTypeOK'
  BY <1>1, <1>2 DEF TokenTypeOK, Counted
<1>4. RowInv'
  <2>1. \A t \in Tokens : token'[t] = IF t = c THEN s ELSE token[t]
    BY <1>1 DEF TokenTypeOK
  <2>2. Creates \subseteq Tokens /\ Auths \subseteq Tokens /\ c \notin Auths
    BY DEF Tokens
  <2> QED
    BY <2>1, <2>2 DEF RowInv, TokenTypeOK
<1>5. RoomInv'
  BY DEF RoomInv, Counted, TokenTypeOK
<1>6. KeptInv' /\ HandedInv'
  BY ResultsKept
<1> QED
  BY <1>3, <1>4, <1>5, <1>6

LEMMA CreateFailsStep ==
  ASSUME TokenInv, NEW c \in Creates, CreateFails(c) PROVE TokenInv'
<1> USE TokenAssumption DEF TokenInv, CreateFails
<1>1. TokenTypeOK'
  BY DEF TokenTypeOK
<1>2. RowInv'
  BY DEF RowInv, TokenTypeOK
<1>3. RoomInv'
  BY RoomKept DEF TokenTypeOK
<1>4. KeptInv' /\ HandedInv'
  BY ResultsKept
<1> QED
  BY <1>1, <1>2, <1>3, <1>4

LEMMA AuthInsertStep ==
  ASSUME TokenInv, NEW a \in Auths, AuthInsert(a) PROVE TokenInv'
<1> USE TokenAssumption DEF TokenInv, AuthInsert
<1>1. a \in Tokens /\ a \notin Creates
  BY DEF Tokens
<1>2. TokenTypeOK'
  BY <1>1 DEF TokenTypeOK, Counted
<1>3. RowInv'
  <2>1. \A t \in Tokens : token'[t] = IF t = a THEN "active" ELSE token[t]
    BY DEF TokenTypeOK
  <2>2. Creates \subseteq Tokens /\ Auths \subseteq Tokens
    BY DEF Tokens
  <2> QED
    BY <1>1, <2>1, <2>2 DEF RowInv, TokenTypeOK
<1>4. RoomInv'
  BY DEF RoomInv, Counted
<1>5. KeptInv' /\ HandedInv'
  BY ResultsKept DEF TokenTypeOK
<1> QED
  BY <1>2, <1>3, <1>4, <1>5

\* A result that comes in is an error or a token no result has told of yet.
LEMMA KeepStep ==
  ASSUME TokenInv, NEW a \in Auths, NEW value \in {a, Error}, Keep(a, value),
         auth[a] # "done", value = a => auth'[a] = "done",
         \A b \in Auths : auth[b] = "done" => auth'[b] = "done",
         UNCHANGED <<handed, poll>>
  PROVE  /\ results' \subseteq Results
         /\ \A e, f \in results' : e.state = f.state => e = f
         /\ KeptInv'
         /\ HandedInv'
<1> USE TokenAssumption DEF TokenInv
<1> DEFINE new == [state |-> StateOf[a], value |-> value, fresh |-> TRUE]
<1>1. new \in Results /\ new.state = StateOf[a] /\ new.value = value
  BY DEF Results, Tokens
<1>2. results' = {e \in Fresh : e.state # StateOf[a]} \cup {new}
  BY DEF Keep
<1>3. \A e \in results' : e = new \/ (e \in results /\ e.state # StateOf[a])
  BY <1>2 DEF Fresh
<1> HIDE DEF new
<1>4. results' \subseteq Results
  BY <1>1, <1>3 DEF TokenTypeOK
<1>5. \A e, f \in results' : e.state = f.state => e = f
  BY <1>1, <1>3 DEF TokenTypeOK
<1>6. Error \notin Auths
  BY DEF Tokens
<1>7. Kept(new)'
  BY <1>1, <1>6 DEF Kept
<1>8. KeptInv'
  BY <1>3, <1>7 DEF KeptInv, Kept
<1>9. HandedInv'
  <2>1. ASSUME NEW p \in Polls, NEW e \in handed[p], e.value # Error
        PROVE  e.value # value
    BY <1>6, <2>1 DEF KeptInv, Kept
  <2> QED
    BY <1>1, <1>3, <2>1 DEF HandedInv
<1> QED
  BY <1>4, <1>5, <1>8, <1>9

LEMMA AuthEndStep ==
  ASSUME TokenInv, NEW a \in Auths, AuthStore(a) \/ AuthFails(a) PROVE TokenInv'
<1> USE TokenAssumption DEF TokenInv
<1>1. /\ UNCHANGED <<token, create, handed, poll, bearer, loaded, overtaken>>
      /\ auth[a] # "done"
  BY DEF AuthStore, AuthFails
<1>2. \/ /\ auth[a] = "inserted"
         /\ auth' = [auth EXCEPT ![a] = "done"]
      \/ /\ auth[a] = "new"
         /\ auth' = [auth EXCEPT ![a] = "failed"]
  BY DEF AuthStore, AuthFails
<1>3. /\ auth' \in [Auths -> {"new", "inserted", "done", "failed"}]
      /\ \A b \in Auths : auth[b] = "done" => auth'[b] = "done"
  BY <1>1, <1>2 DEF TokenTypeOK
<1>4. \/ UNCHANGED results
      \/ \E value \in {a, Error} : Keep(a, value) /\ (value = a => auth'[a] = "done")
  <2>1. CASE AuthStore(a)
    BY <2>1 DEF AuthStore, TokenTypeOK
  <2>2. CASE AuthFails(a)
    BY <2>2 DEF AuthFails, Tokens
  <2> QED
    BY <2>1, <2>2
<1>5. /\ results' \subseteq Results
      /\ \A e, f \in results' : e.state = f.state => e = f
      /\ KeptInv'
      /\ HandedInv'
  <2>1. CASE UNCHANGED results
    <3>1. KeptInv' /\ HandedInv'
      BY <1>1, <1>3, <2>1, ResultsKept
    <3> QED
      BY <2>1, <3>1 DEF TokenTypeOK
  <2>2. CASE \E value \in {a, Error} : Keep(a, value) /\ (value = a => auth'[a] = "done")
    BY <1>1, <1>3, <2>2, KeepStep
  <2> QED
    BY <1>4, <2>1, <2>2
<1>6. TokenTypeOK'
  BY <1>1, <1>3, <1>5 DEF TokenTypeOK
<1>7. RowInv'
  BY <1>1, <1>2 DEF RowInv, TokenTypeOK
<1>8. RoomInv'
  BY <1>1, RoomKept
<1> QED
  BY <1>5, <1>6, <1>7, <1>8

LEMMA ResultExpiresStep ==
  ASSUME TokenInv, NEW e \in results, ResultExpires(e) PROVE TokenInv'
<1> USE TokenAssumption DEF TokenInv, ResultExpires
<1> DEFINE old == [e EXCEPT !.fresh = FALSE]
<1>1. old \in Results /\ old.state = e.state /\ old.value = e.value
  BY DEF TokenTypeOK, Results
<1>2. \A f \in results' : f = old \/ (f \in results /\ f # e)
  OBVIOUS
<1> HIDE DEF old
<1>3. TokenTypeOK'
  <2>1. results' \subseteq Results
    BY <1>1, <1>2 DEF TokenTypeOK
  <2>2. \A f, g \in results' : f.state = g.state => f = g
    BY <1>1, <1>2 DEF TokenTypeOK
  <2> QED
    BY <2>1, <2>2 DEF TokenTypeOK
<1>4. RowInv'
  BY DEF RowInv
<1>5. RoomInv'
  BY RoomKept
<1>6. KeptInv'
  BY <1>1, <1>2 DEF KeptInv, Kept
<1>7. HandedInv'
  BY <1>1, <1>2 DEF HandedInv
<1> QED
  BY <1>3, <1>4, <1>5, <1>6, <1>7

LEMMA PopStep ==
  ASSUME TokenInv, NEW p \in Polls, Pop(p) PROVE TokenInv'
<1> USE TokenAssumption DEF TokenInv, Pop
<1>1. results' \subseteq results
  BY DEF Fresh
<1>2. /\ handed'[p] = {e \in Fresh : e.state = PollState[p]}
      /\ \A q \in Polls : q # p => handed'[q] = handed[q]
  BY DEF TokenTypeOK
<1>3. \A e \in handed'[p] : e \in results /\ e.state = PollState[p]
  BY <1>2 DEF Fresh
<1>4. TokenTypeOK'
  <2>1. handed' \in [Polls -> SUBSET Results]
    BY <1>3 DEF TokenTypeOK, Fresh
  <2> QED
    BY <1>1, <2>1 DEF TokenTypeOK
<1>5. RowInv'
  BY DEF RowInv
<1>6. RoomInv'
  BY RoomKept
<1>7. KeptInv'
  BY <1>1, <1>2, <1>3 DEF KeptInv, Kept
<1>8. HandedInv'
  <2>1. \A q \in Polls : poll'[q] = "new" => q # p /\ poll[q] = "new"
    BY DEF TokenTypeOK
  <2>2. ASSUME NEW e \in handed'[p], e.value # Error
        PROVE  /\ \A f \in results' : f.value # e.value
               /\ \A q \in Polls : q # p => \A f \in handed'[q] : f.value # e.value
    <3>1. \A f \in results' : f \in results /\ f.state # PollState[p]
      BY DEF Fresh
    <3>2. \A f \in results : f.value = e.value => f.state = e.state
      BY <1>3, <2>2 DEF KeptInv, Kept
    <3>3. \A q \in Polls : q # p => \A f \in handed[q] : f.value # e.value
      BY <1>3, <2>2 DEF HandedInv
    <3> QED
      BY <1>2, <1>3, <3>1, <3>2, <3>3
  <2>3. ASSUME NEW q \in Polls, q # p, NEW e \in handed'[q], e.value # Error
        PROVE  /\ \A f \in results' : f.value # e.value
               /\ \A r \in Polls : r # q => \A f \in handed'[r] : f.value # e.value
    BY <1>1, <1>2, <1>3, <2>3 DEF HandedInv
  <2>4. \A q \in Polls : poll'[q] = "new" => handed'[q] = {}
    BY <1>2, <2>1 DEF HandedInv
  <2> QED
    BY <2>2, <2>3, <2>4 DEF HandedInv
<1> QED
  BY <1>4, <1>5, <1>6, <1>7, <1>8

LEMMA BearerStep ==
  ASSUME TokenInv, NEW b \in Bearers, Resolve(b) \/ Touch(b) PROVE TokenInv'
<1> USE TokenAssumption DEF TokenInv
<1>1. UNCHANGED <<token, create, auth, results, handed, poll, overtaken>>
  BY DEF Resolve, Touch
<1>2. TokenTypeOK'
  BY <1>1 DEF Resolve, Touch, TokenTypeOK
<1>3. RowInv' /\ RoomInv'
  BY <1>1, RoomKept DEF RowInv
<1>4. KeptInv' /\ HandedInv'
  BY <1>1, ResultsKept
<1> QED
  BY <1>2, <1>3, <1>4

LEMMA TokenEndStep ==
  ASSUME TokenInv, NEW t \in Tokens, RevokeToken(t) \/ TokenExpires(t) PROVE TokenInv'
<1> USE TokenAssumption DEF TokenInv
<1>1. UNCHANGED <<create, auth, results, handed, poll, bearer, loaded, overtaken>>
  BY DEF RevokeToken, TokenExpires
<1>2. PICK s \in {"revoked", "expired"} : token' = [token EXCEPT ![t] = s]
  BY DEF RevokeToken, TokenExpires
<1>3. token[t] # "none"
  BY DEF RevokeToken, TokenExpires
<1>4. TokenTypeOK'
  BY <1>1, <1>2 DEF TokenTypeOK
<1>5. \A u \in Tokens : token'[u] = IF u = t THEN s ELSE token[u]
  BY <1>2 DEF TokenTypeOK
<1>6. RowInv'
  <2>1. Creates \subseteq Tokens /\ Auths \subseteq Tokens
    BY DEF Tokens
  <2> QED
    BY <1>1, <1>3, <1>5, <2>1 DEF RowInv
<1>7. RoomInv'
  BY <1>1, <1>5, RoomKept
<1>8. KeptInv' /\ HandedInv'
  BY <1>1, ResultsKept
<1> QED
  BY <1>4, <1>6, <1>7, <1>8

LEMMA TokenRestartStep == ASSUME TokenInv, TokenRestart PROVE TokenInv'
<1> USE DEF TokenInv, TokenRestart
<1>1. TokenTypeOK'
  BY DEF TokenTypeOK
<1>2. RowInv' /\ RoomInv'
  BY RoomKept DEF RowInv
<1>3. KeptInv' /\ HandedInv'
  BY DEF KeptInv, Kept, HandedInv
<1> QED
  BY <1>1, <1>2, <1>3

\* An insert finds the room that its request has counted.
LEMMA InsertFits ==
  ASSUME TokenInv, NEW c \in Creates, c \notin overtaken, Insert(c)
  PROVE  Cardinality(Active') <= TokenLimit
<1> USE TokenAssumption DEF TokenInv
<1>1. IsFiniteSet(Active)
  BY FS_Subset DEF Active
<1>2. Cardinality(Active) < TokenLimit /\ Cardinality(Active) \in Nat
  BY <1>1, FS_CardinalityType DEF RoomInv, Counted, Insert
<1>3. IsFiniteSet(Active \cup {c}) /\ Cardinality(Active \cup {c}) <= Cardinality(Active) + 1
  <2>1. /\ IsFiniteSet(Active \cup {c})
        /\ Cardinality(Active \cup {c}) =
             IF c \in Active THEN Cardinality(Active) ELSE Cardinality(Active) + 1
    BY <1>1, FS_AddElement
  <2> QED
    BY <1>2, <2>1
<1>4. Active' \in SUBSET (Active \cup {c})
  BY DEF Active, Insert, TokenTypeOK
<1>5. /\ Cardinality(Active') <= Cardinality(Active \cup {c})
      /\ Cardinality(Active') \in Nat
      /\ Cardinality(Active \cup {c}) \in Nat
  BY <1>3, <1>4, FS_Subset, FS_CardinalityType
<1> QED
  BY <1>2, <1>3, <1>5

\* Tokens of the API stay within the limit unless another one appeared after the
\* count, results reach one poll of their client, and what is revoked stays
\* revoked, for any number of tokens, browsers, clients and bearers
\* (CreateAccessToken, CLIBrowserAuth, CLIBrowserAuthPoll,
\* resolveUserFromBearerToken).
THEOREM TokensHeld == TokenSpec => TokensHold
<1>1. TokenInv /\ [TokenNext]_tokenVars => TokenInv'
  <2> SUFFICES ASSUME TokenInv, [TokenNext]_tokenVars PROVE TokenInv'
    OBVIOUS
  <2>1. ASSUME NEW c \in Creates, Create(c) PROVE TokenInv'
    BY <2>1, CountStep, InsertStep, CreateFailsStep DEF Create
  <2>2. ASSUME NEW a \in Auths, AuthInsert(a) \/ AuthStore(a) \/ AuthFails(a)
        PROVE  TokenInv'
    BY <2>2, AuthInsertStep, AuthEndStep
  <2>3. ASSUME NEW e \in results, ResultExpires(e) PROVE TokenInv'
    BY <2>3, ResultExpiresStep
  <2>4. ASSUME NEW p \in Polls, Pop(p) PROVE TokenInv'
    BY <2>4, PopStep
  <2>5. ASSUME NEW b \in Bearers, Resolve(b) \/ Touch(b) PROVE TokenInv'
    BY <2>5, BearerStep
  <2>6. ASSUME NEW t \in Tokens, RevokeToken(t) \/ TokenExpires(t) PROVE TokenInv'
    BY <2>6, TokenEndStep
  <2>7. CASE TokenRestart
    BY <2>7, TokenRestartStep
  <2>8. CASE UNCHANGED tokenVars
    <3>1. TokenTypeOK' /\ RowInv'
      BY <2>8 DEF tokenVars, TokenInv, TokenTypeOK, RowInv
    <3>2. RoomInv' /\ KeptInv' /\ HandedInv'
      BY <2>8, RoomKept, ResultsKept DEF tokenVars
    <3> QED
      BY <3>1, <3>2 DEF TokenInv
  <2> QED
    BY <2>1, <2>2, <2>3, <2>4, <2>5, <2>6, <2>7, <2>8 DEF TokenNext
<1>2. TokenInv => TokenTypeOK /\ HandedOnce
  BY HandedRight DEF TokenInv
<1>3. TokenInv /\ [TokenNext]_tokenVars =>
        [\A c \in Creates :
           create[c] = "counted" /\ create'[c] = "created" /\ c \notin overtaken =>
             Cardinality(Active') <= TokenLimit]_tokenVars
  <2> SUFFICES ASSUME TokenInv, TokenNext, NEW c \in Creates,
                      create[c] = "counted", create'[c] = "created", c \notin overtaken
               PROVE  Cardinality(Active') <= TokenLimit
    OBVIOUS
  <2>1. \E d \in Creates : Create(d)
    BY DEF TokenNext, AuthInsert, AuthStore, AuthFails, ResultExpires, Pop, Resolve,
           Touch, RevokeToken, TokenExpires, TokenRestart
  <2>2. Insert(c)
    BY <2>1 DEF Create, Count, Insert, CreateFails, TokenInv, TokenTypeOK
  <2> QED
    BY <2>2, InsertFits
<1>4. TokenInv /\ [TokenNext]_tokenVars =>
        [\A t \in Tokens : token[t] = "revoked" => token'[t] = "revoked"]_tokenVars
  <2> SUFFICES ASSUME TokenInv, TokenNext, NEW t \in Tokens, token[t] = "revoked"
               PROVE  token'[t] = "revoked"
    OBVIOUS
  <2>1. ASSUME NEW c \in Creates, Create(c) PROVE token'[t] = "revoked"
    BY <2>1 DEF Create, Count, Insert, CreateFails, TokenInv, TokenTypeOK, RowInv
  <2>2. ASSUME NEW a \in Auths, AuthInsert(a) PROVE token'[t] = "revoked"
    BY <2>2 DEF AuthInsert, TokenInv, TokenTypeOK, RowInv
  <2>3. ASSUME NEW u \in Tokens, RevokeToken(u) \/ TokenExpires(u)
        PROVE  token'[t] = "revoked"
    BY <2>3 DEF RevokeToken, TokenExpires, TokenInv, TokenTypeOK
  <2>4. ASSUME UNCHANGED token PROVE token'[t] = "revoked"
    BY <2>4
  <2> QED
    BY <2>1, <2>2, <2>3, <2>4
    DEF TokenNext, AuthStore, AuthFails, ResultExpires, Pop, Resolve, Touch, TokenRestart
<1> QED
  BY TokenInitInv, <1>1, <1>2, <1>3, <1>4, PTL
  DEF TokenSpec, TokensHold, LimitHolds, RevokedForGood

-----------------------------------------------------------------------------
(***************************************************************************)
(* Integration access.                                                     *)
(***************************************************************************)

\* A row is deleted exactly when its pair has been revoked.
DeletedInv == \A p \in Pairs : access[p] = "deleted" <=> p \in revoked

\* Only requests for somebody who may have the integration get past the look-up.
MayInv ==
  \A g \in Grants : grant[g] \in {"missing", "granted", "failed"} =>
    GrantOf[g] \notin Forbidden

\* A request whose insert will be refused knows why.
MissingInv ==
  \A g \in Grants : grant[g] = "missing" /\ access[GrantOf[g]] # "none" =>
    g \in lost \/ GrantOf[g] \in revoked

AccessInv ==
  /\ GrantsHold
  /\ DeletedInv
  /\ MayInv
  /\ MissingInv

-----------------------------------------------------------------------------
LEMMA AccessInitInv == AccessInit => AccessInv
BY AccessAssumption
DEF AccessInit, AccessInv, GrantsHold, AccessTypeOK, AnswersHold, RevokedStaysRevoked,
    DeletedInv, MayInv, MissingInv

LEMMA FindGrantStep ==
  ASSUME AccessInv, NEW g \in Grants, FindGrant(g) PROVE AccessInv'
<1> USE AccessAssumption DEF AccessInv, GrantsHold, FindGrant, Answer
<1>1. AccessTypeOK'
  BY DEF AccessTypeOK
<1>2. AnswersHold'
  BY DEF AnswersHold, AccessTypeOK
<1>3. RevokedStaysRevoked' /\ DeletedInv'
  BY DEF RevokedStaysRevoked, DeletedInv
<1>4. MayInv'
  BY DEF MayInv, AccessTypeOK
<1>5. MissingInv'
  <2> SUFFICES ASSUME NEW h \in Grants, grant'[h] = "missing", access[GrantOf[h]] # "none"
               PROVE  h \in lost \/ GrantOf[h] \in revoked
    BY DEF MissingInv
  <2>1. CASE h = g
    BY <2>1 DEF DeletedInv, AccessTypeOK
  <2>2. CASE h # g
    BY <2>2 DEF MissingInv, AccessTypeOK
  <2> QED
    BY <2>1, <2>2
<1> QED
  BY <1>1, <1>2, <1>3, <1>4, <1>5

LEMMA InsertGrantStep ==
  ASSUME AccessInv, NEW g \in Grants, InsertGrant(g) PROVE AccessInv'
<1> USE AccessAssumption DEF AccessInv, GrantsHold, InsertGrant, Answer
<1>1. GrantOf[g] \in Pairs \ Forbidden
  BY DEF MayInv
<1>2. AccessTypeOK'
  BY <1>1 DEF AccessTypeOK
<1>3. AnswersHold'
  BY <1>1 DEF AnswersHold, MissingInv, AccessTypeOK
<1>4. RevokedStaysRevoked' /\ DeletedInv'
  BY <1>1 DEF RevokedStaysRevoked, DeletedInv, AccessTypeOK
<1>5. MayInv'
  BY DEF MayInv, AccessTypeOK
<1>6. MissingInv'
  BY DEF MissingInv, AccessTypeOK
<1> QED
  BY <1>2, <1>3, <1>4, <1>5, <1>6

LEMMA RevokeAccessStep ==
  ASSUME AccessInv, NEW r \in Revokes, RevokeAccess(r) PROVE AccessInv'
<1> USE AccessAssumption DEF AccessInv, GrantsHold, RevokeAccess
<1>1. AccessTypeOK'
  BY DEF AccessTypeOK
<1>2. AnswersHold'
  BY DEF AnswersHold, AccessTypeOK
<1>3. RevokedStaysRevoked' /\ DeletedInv'
  <2>1. \A p \in Pairs :
          access'[p] = IF p = RevokeOf[r] /\ access[p] = "live" THEN "deleted"
                       ELSE access[p]
    BY DEF AccessTypeOK
  <2>2. \A p \in Pairs :
          p \in revoked' <=> p \in revoked \/ (p = RevokeOf[r] /\ access[p] = "live")
    OBVIOUS
  <2>3. \A p \in Pairs : access'[p] = "deleted" <=> p \in revoked'
    BY <2>1, <2>2 DEF DeletedInv
  <2> QED
    BY <1>1, <2>3 DEF RevokedStaysRevoked, DeletedInv, AccessTypeOK
<1>4. MayInv'
  BY DEF MayInv
<1>5. MissingInv'
  BY DEF MissingInv, AccessTypeOK
<1> QED
  BY <1>1, <1>2, <1>3, <1>4, <1>5

\* Grants and revocations hold as they were answered, for any number of them
\* (GrantIntegrationAccess, RevokeIntegrationAccess).
THEOREM GrantsHeld == AccessSpec => []GrantsHold
<1>1. AccessInv /\ [AccessNext]_accessVars => AccessInv'
  <2> SUFFICES ASSUME AccessInv, [AccessNext]_accessVars PROVE AccessInv'
    OBVIOUS
  <2>1. ASSUME NEW g \in Grants, FindGrant(g) PROVE AccessInv'
    BY <2>1, FindGrantStep
  <2>2. ASSUME NEW g \in Grants, InsertGrant(g) PROVE AccessInv'
    BY <2>2, InsertGrantStep
  <2>3. ASSUME NEW r \in Revokes, RevokeAccess(r) PROVE AccessInv'
    BY <2>3, RevokeAccessStep
  <2>4. CASE UNCHANGED accessVars
    BY <2>4
    DEF accessVars, AccessInv, GrantsHold, AccessTypeOK, AnswersHold,
        RevokedStaysRevoked, DeletedInv, MayInv, MissingInv
  <2> QED
    BY <2>1, <2>2, <2>3, <2>4 DEF AccessNext
<1>2. AccessInv => GrantsHold
  BY DEF AccessInv
<1> QED
  BY AccessInitInv, <1>1, <1>2, PTL DEF AccessSpec
=============================================================================
