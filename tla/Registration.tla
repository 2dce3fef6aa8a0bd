---------------------------- MODULE Registration ----------------------------
(***************************************************************************)
(* Sign-up: registrations that make an account or, when sign-up needs an   *)
(* admin's approval, a registration request; and the decisions of admins   *)
(* on these requests.                                                      *)
(*                                                                         *)
(* A registration is several queries without a transaction.  A decision is *)
(* one transaction, whose reads are steps of their own: under READ         *)
(* COMMITTED, PostgreSQL's default, other requests commit between them.    *)
(* Its writes take effect when it commits.                                 *)
(***************************************************************************)
EXTENDS Naturals, FiniteSets

CONSTANTS
  Emails,         \* normalised addresses
  Registrations,  \* requests to register
  EmailOf,        \* the address of a registration
  Decisions,      \* an admin's approve and reject requests
  RequestOf,      \* the registration whose request a decision is about
  Approvals,      \* the decisions that approve
  NoOne,
  MaxRestarts     \* bound on restarts

ASSUME ConstantsAssumption ==
  /\ EmailOf \in [Registrations -> Emails]
  /\ RequestOf \in [Decisions -> Registrations]
  /\ Approvals \subseteq Decisions
  /\ NoOne \notin Registrations
  /\ MaxRestarts \in Nat

VARIABLES
  restarts,
  signup,   \* --signup-requires-admin-approval: "open" or "approval"
  account,  \* account[e]: the registration the user with address e comes from
  blank,    \* addresses of the users whose username is empty
  row,      \* status of the request row of a registration
  linked,   \* request rows whose approved_user_id is set
  reg,      \* how far a registration has come
  dec,      \* how far a decision has come
  crossed,  \* requests two decisions about which were under way at once
  raced     \* registrations that looked for a pending request of their address
            \* while another one was about to create it

rowVars == <<account, blank, row, linked>>
vars == <<restarts, signup, rowVars, reg, dec, crossed, raced>>

Taken(e) == account[e] # NoOne

Deciding(d) == dec[d] \in {"reviewing", "clear"}

Init ==
  /\ restarts = 0
  /\ signup \in {"open", "approval"}
  /\ account = [e \in Emails |-> NoOne]
  /\ blank = {}
  /\ row = [r \in Registrations |-> "none"]
  /\ linked = {}
  /\ reg = [r \in Registrations |-> "new"]
  /\ dec = [d \in Decisions |-> "new"]
  /\ crossed = {}
  /\ raced = {}

(***************************************************************************)
(* Registration: CreateUserOrRegistrationRequest.                          *)
(***************************************************************************)

\* A user with the address exists: "email already in use".
CheckEmail(r) ==
  /\ reg[r] = "new"
  /\ reg' = [reg EXCEPT ![r] = IF Taken(EmailOf[r]) THEN "refused"
                               ELSE "checked"]
  /\ UNCHANGED <<restarts, signup, rowVars, dec, crossed, raced>>

PendingFor(e) == {q \in Registrations : EmailOf[q] = e /\ row[q] = "pending"}

Creating(e) == {q \in Registrations : EmailOf[q] = e /\ reg[q] = "unique"}

\* A request for the address is pending: "registration request already pending".
CheckPending(r) ==
  /\ signup = "approval"
  /\ reg[r] = "checked"
  /\ reg' = [reg EXCEPT ![r] = IF PendingFor(EmailOf[r]) # {} THEN "refused"
                               ELSE "unique"]
  /\ raced' = IF Creating(EmailOf[r]) # {} THEN raced \cup {r} ELSE raced
  /\ UNCHANGED <<restarts, signup, rowVars, dec, crossed>>

CreateRequest(r) ==
  /\ reg[r] = "unique"
  /\ reg' = [reg EXCEPT ![r] = "created"]
  /\ row' = [row EXCEPT ![r] = "pending"]
  /\ UNCHANGED <<restarts, signup, account, blank, linked, dec, crossed, raced>>

\* The user gets a random username; the unique index on the address refuses a
\* second one.
CreateUser(r) ==
  LET e == EmailOf[r] IN
  /\ signup = "open"
  /\ reg[r] = "checked"
  /\ \/ /\ Taken(e)
        /\ reg' = [reg EXCEPT ![r] = "failed"]
        /\ UNCHANGED account
     \/ /\ ~Taken(e)
        /\ reg' = [reg EXCEPT ![r] = "created"]
        /\ account' = [account EXCEPT ![e] = r]
  /\ UNCHANGED <<restarts, signup, blank, row, linked, dec, crossed, raced>>

Register(r) ==
  \/ CheckEmail(r)
  \/ CheckPending(r)
  \/ CreateRequest(r)
  \/ CreateUser(r)

(***************************************************************************)
(* Decision: the transaction of decisionRegistrationRequest.               *)
(***************************************************************************)

\* Fault: a request is decided whatever its status.
ReviewAny(d) ==
  LET r == RequestOf[d] IN
  /\ dec[d] = "new"
  /\ row[r] # "none"
  /\ dec' = [dec EXCEPT ![d] = IF d \in Approvals THEN "reviewing" ELSE "clear"]
  /\ crossed' = IF \E c \in Decisions : RequestOf[c] = r /\ Deciding(c)
                THEN crossed \cup {r} ELSE crossed
  /\ UNCHANGED <<restarts, signup, rowVars, reg, raced>>

\* The request is read; one that is not pending has been reviewed already.
Review(d) ==
  LET r == RequestOf[d] IN
  /\ dec[d] = "new"
  /\ row[r] # "none"
  /\ dec' = [dec EXCEPT ![d] = IF row[r] # "pending" THEN "refused"
                               ELSE IF d \in Approvals THEN "reviewing"
                               ELSE "clear"]
  /\ crossed' = IF \E c \in Decisions : RequestOf[c] = r /\ Deciding(c)
                THEN crossed \cup {r} ELSE crossed
  /\ UNCHANGED <<restarts, signup, rowVars, reg, raced>>

\* An approval needs an address that no user has.
LookUpEmail(d) ==
  /\ dec[d] = "reviewing"
  /\ dec' = [dec EXCEPT ![d] = IF Taken(EmailOf[RequestOf[d]]) THEN "conflict"
                               ELSE "clear"]
  /\ UNCHANGED <<restarts, signup, rowVars, reg, crossed, raced>>

\* The user is created with the request's address and without a username, and
\* the request is updated by its id alone.  Both columns of the user have unique
\* indexes: a second row with the same value rolls the transaction back.
Approve(d) ==
  LET r == RequestOf[d] e == EmailOf[r] IN
  /\ d \in Approvals
  /\ dec[d] = "clear"
  /\ \/ /\ Taken(e) \/ blank # {}
        /\ dec' = [dec EXCEPT ![d] = "failed"]
        /\ UNCHANGED rowVars
     \/ /\ ~Taken(e) /\ blank = {}
        /\ dec' = [dec EXCEPT ![d] = "done"]
        /\ account' = [account EXCEPT ![e] = r]
        /\ blank' = blank \cup {e}
        /\ row' = [row EXCEPT ![r] = "approved"]
        /\ linked' = linked \cup {r}
  /\ UNCHANGED <<restarts, signup, reg, crossed, raced>>

Reject(d) ==
  /\ d \notin Approvals
  /\ dec[d] = "clear"
  /\ dec' = [dec EXCEPT ![d] = "done"]
  /\ row' = [row EXCEPT ![RequestOf[d]] = "rejected"]
  /\ UNCHANGED <<restarts, signup, account, blank, linked, reg, crossed, raced>>

Decide(d) ==
  \/ Review(d)
  \/ LookUpEmail(d)
  \/ Approve(d)
  \/ Reject(d)

(***************************************************************************)
(* Restart.                                                                *)
(***************************************************************************)

\* What is under way is lost; the operator may change the sign-up flag; the
\* migration BackfillUsernames gives every user without a username its address.
Restart ==
  /\ restarts < MaxRestarts
  /\ restarts' = restarts + 1
  /\ signup' \in {"open", "approval"}
  /\ blank' = {}
  /\ reg' = [r \in Registrations |->
               IF reg[r] \in {"checked", "unique"} THEN "lost" ELSE reg[r]]
  /\ dec' = [d \in Decisions |-> IF Deciding(d) THEN "lost" ELSE dec[d]]
  /\ UNCHANGED <<account, row, linked, crossed, raced>>

Next ==
  \/ \E r \in Registrations : Register(r)
  \/ \E d \in Decisions : Decide(d)
  \/ Restart

Spec == Init /\ [][Next]_vars

(***************************************************************************)
(* Properties.                                                             *)
(***************************************************************************)

\* Every variable keeps its type, and no two users are without a username.
TypeOK ==
  /\ restarts \in 0..MaxRestarts
  /\ signup \in {"open", "approval"}
  /\ account \in [Emails -> Registrations \cup {NoOne}]
  /\ blank \subseteq Emails
  /\ \A e, f \in blank : e = f
  /\ row \in [Registrations -> {"none", "pending", "approved", "rejected"}]
  /\ linked \subseteq Registrations
  /\ reg \in [Registrations -> {"new", "checked", "unique", "created",
                                "refused", "failed", "lost"}]
  /\ dec \in [Decisions -> {"new", "reviewing", "clear", "done", "refused",
                            "conflict", "failed", "lost"}]
  /\ crossed \subseteq Registrations
  /\ raced \subseteq Registrations

\* An approved request is the one its user's account was made from, with the
\* name and the password of that request: of several requests for an address,
\* which can come about when two registrations check for a pending one at the
\* same time or when sign-up is opened for a while, only one is ever approved.
ApprovedOwnsAccount ==
  \A r \in Registrations :
    /\ row[r] = "approved" => account[EmailOf[r]] = r
    /\ r \in linked <=> row[r] # "none" /\ account[EmailOf[r]] = r

\* A registrant who was rejected has no account, unless two admins decided the
\* request at the same time ("Registration request has already been reviewed").
RejectedStaysOut ==
  \A r \in Registrations :
    row[r] = "rejected" /\ r \notin crossed => account[EmailOf[r]] # r

\* One decision on a request takes effect, unless two were under way at once.
DecidedOnce ==
  \A c, d \in Decisions :
    /\ c # d /\ RequestOf[c] = RequestOf[d]
    /\ dec[c] = "done" /\ dec[d] = "done"
    => RequestOf[c] \in crossed

\* No two requests for one address wait for an admin, unless two registrations
\* got between each other's look and insert.
PendingOnce ==
  \A q, r \in Registrations :
    q # r /\ EmailOf[q] = EmailOf[r] /\ row[q] = "pending" /\ row[r] = "pending"
      => raced \cap {q, r} # {}

\* Approving a pending request creates its user (TestApproveRegistrationRequest-
\* CreatesUser, api/user/register_test.go:107): an approval that has found the
\* request pending and the address free fails only if the address was taken in
\* the meantime.  Violated: the users of two approvals both have the username
\* "", and the second one is refused until the next start.
ApprovalCreatesUser ==
  \A d \in Approvals : dec[d] = "failed" => Taken(EmailOf[RequestOf[d]])

\* The decisions on registrations hold: who was approved has the account, who
\* was rejected has none, and each was decided once.
DecisionsHold ==
  /\ TypeOK
  /\ ApprovedOwnsAccount
  /\ RejectedStaysOut
  /\ DecidedOnce
  /\ PendingOnce
=============================================================================
