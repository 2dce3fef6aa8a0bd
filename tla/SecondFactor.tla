---------------------------- MODULE SecondFactor ----------------------------
(***************************************************************************)
(* The second factor of one user: switching it on with ten recovery codes, *)
(* switching it off, and logging in with or without it.                    *)
(*                                                                         *)
(* None of the handlers uses a transaction.  TwoFactorEnabled and          *)
(* TwoFactorSecret are always written together, with the whole user row,   *)
(* and are one variable here.                                              *)
(***************************************************************************)
EXTENDS Naturals, FiniteSets

CONSTANTS
  Confirms,    \* requests that switch the second factor on, each with a secret
  Disables,    \* requests that switch it off
  CodeCount,   \* recovery codes of a set-up
  Logins,      \* login requests with the right password
  Offer,       \* what a login offers: a secret, a recovery code or nothing
  NoFactor

Codes == Confirms \X (1 .. CodeCount)

ASSUME FactorAssumption ==
  /\ CodeCount \in Nat \ {0}
  /\ NoFactor \notin Confirms
  /\ Confirms \cap Codes = {}
  /\ NoFactor \notin Codes
  /\ Offer \in [Logins -> Confirms \cup Codes \cup {NoFactor}]

VARIABLES
  factor,   \* the confirmed secret in the user's row, or NoFactor
  codes,    \* rows of recovery codes: "none", "unused", "used", "deleted"
  confirm,  \* how far a confirmation has come
  disable,  \* how far a switching off has come
  login,    \* how far a login has come
  session,  \* the session a login has made
  \* History.
  setups,     \* set-ups that have switched the factor on since it was last
              \* switched off
  letIn,      \* logins that a recovery code has let in
  contested,  \* codes that two logins had found at once, or that could not be
              \* marked
  mixed       \* has a confirmation met another request that changes the factor,
              \* or has one of them failed halfway?

factorVars == <<factor, codes, confirm, disable, login, session,
                setups, letIn, contested, mixed>>

FactorInit ==
  /\ factor = NoFactor
  /\ codes = [c \in Codes |-> "none"]
  /\ confirm = [s \in Confirms |-> "new"]
  /\ disable = [d \in Disables |-> "new"]
  /\ login = [l \in Logins |-> "new"]
  /\ session = [l \in Logins |-> "none"]
  /\ setups = {}
  /\ letIn = {}
  /\ contested = {}
  /\ mixed = FALSE

Confirming == {s \in Confirms : confirm[s] = "enabled"}
Disabling  == {d \in Disables : disable[d] = "disabled"}

CodesOf(s) == {c \in Codes : c[1] = s}

Unused == {c \in Codes : codes[c] = "unused"}

(***************************************************************************)
(* Set-up: ConfirmTwoFactor and DisableTwoFactor.                          *)
(***************************************************************************)

\* The secret comes from the client, as SetupTwoFactor keeps none.  A factor that
\* is on already is replaced; the codes of its set-up stay.
EnableFactor(s) ==
  /\ confirm[s] = "new"
  /\ confirm' = [confirm EXCEPT ![s] = "enabled"]
  /\ factor' = s
  /\ setups' = setups \cup {s}
  /\ mixed' = (mixed \/ Confirming # {} \/ Disabling # {})
  /\ UNCHANGED <<codes, disable, login, session, letIn, contested>>

NextCode(s) == {c \in CodesOf(s) :
                  /\ codes[c] = "none"
                  /\ \A b \in CodesOf(s) : codes[b] = "none" => c[2] <= b[2]}

\* One code after the other.
CreateCode(s) ==
  /\ confirm[s] = "enabled"
  /\ \E c \in NextCode(s) : codes' = [codes EXCEPT ![c] = "unused"]
  /\ UNCHANGED <<factor, confirm, disable, login, session,
                 setups, letIn, contested, mixed>>

\* Fault: the codes are shown before the last one is stored.
ShowCodesEarly(s) ==
  /\ confirm[s] = "enabled"
  /\ Cardinality(NextCode(s)) <= 1
  /\ confirm' = [confirm EXCEPT ![s] = "shown"]
  /\ UNCHANGED <<factor, codes, disable, login, session,
                 setups, letIn, contested, mixed>>

\* Only now does the user see the codes.
ShowCodes(s) ==
  /\ confirm[s] = "enabled"
  /\ NextCode(s) = {}
  /\ confirm' = [confirm EXCEPT ![s] = "shown"]
  /\ UNCHANGED <<factor, codes, disable, login, session,
                 setups, letIn, contested, mixed>>

\* An error, or the process stops: the factor stays on.
ConfirmFails(s) ==
  /\ confirm[s] = "enabled"
  /\ confirm' = [confirm EXCEPT ![s] = "failed"]
  /\ mixed' = TRUE
  /\ UNCHANGED <<factor, codes, disable, login, session, setups, letIn, contested>>

Confirm(s) ==
  \/ EnableFactor(s)
  \/ CreateCode(s)
  \/ ShowCodes(s)
  \/ ConfirmFails(s)

DisableFactor(d) ==
  /\ disable[d] = "new"
  /\ disable' = [disable EXCEPT ![d] = "disabled"]
  /\ factor' = NoFactor
  /\ setups' = {}
  /\ mixed' = (mixed \/ Confirming # {})
  /\ UNCHANGED <<codes, confirm, login, session, letIn, contested>>

RemoveCodes(d) ==
  /\ disable[d] = "disabled"
  /\ disable' = [disable EXCEPT ![d] = "done"]
  /\ codes' = [c \in Codes |-> IF codes[c] \in {"unused", "used"}
                               THEN "deleted" ELSE codes[c]]
  /\ UNCHANGED <<factor, confirm, login, session, setups, letIn, contested, mixed>>

DisableFails(d) ==
  /\ disable[d] = "disabled"
  /\ disable' = [disable EXCEPT ![d] = "failed"]
  /\ mixed' = TRUE
  /\ UNCHANGED <<factor, codes, confirm, login, session, setups, letIn, contested>>

Disable(d) ==
  \/ DisableFactor(d)
  \/ RemoveCodes(d)
  \/ DisableFails(d)

(***************************************************************************)
(* Login: LoginUser.                                                       *)
(***************************************************************************)

\* A code is offered by somebody who has seen it.
Known(l) ==
  Offer[l] \in Codes => confirm[Offer[l][1]] = "shown"

\* The user's row decides what is asked for; a recovery code comes first.
ReadUser(l) ==
  /\ login[l] = "new"
  /\ Known(l)
  /\ login' = [login EXCEPT ![l] =
                 IF factor = NoFactor \/ factor = Offer[l] THEN "passed"
                 ELSE IF Offer[l] \in Codes THEN "looking"
                 ELSE "refused"]
  /\ UNCHANGED <<factor, codes, confirm, disable, session,
                 setups, letIn, contested, mixed>>

Finders(c) == {l \in Logins : login[l] = "found" /\ Offer[l] = c}

FindCode(l) ==
  /\ login[l] = "looking"
  /\ login' = [login EXCEPT ![l] = IF Offer[l] \in Unused THEN "found"
                                   ELSE "refused"]
  /\ contested' = contested \cup {c \in {Offer[l]} : Finders(c) # {}}
  /\ UNCHANGED <<factor, codes, confirm, disable, session, setups, letIn, mixed>>

\* The code is marked by its key; that this changes no row, or fails, is not
\* looked at.
MarkCode(l) ==
  /\ login[l] = "found"
  /\ login' = [login EXCEPT ![l] = "passed"]
  /\ letIn' = letIn \cup {l}
  /\ \/ /\ codes' = [codes EXCEPT ![Offer[l]] = IF @ = "unused" THEN "used" ELSE @]
        /\ UNCHANGED contested
     \/ /\ contested' = contested \cup {Offer[l]}
        /\ UNCHANGED codes
  /\ UNCHANGED <<factor, confirm, disable, session, setups, mixed>>

\* The session is stored under a token that no other one has.
CreateSession(l) ==
  /\ login[l] = "passed"
  /\ login' = [login EXCEPT ![l] = "in"]
  /\ session' = [session EXCEPT ![l] = "live"]
  /\ UNCHANGED <<factor, codes, confirm, disable, setups, letIn, contested, mixed>>

\* A session that cannot be stored; its code is used up.
LoginFails(l) ==
  /\ login[l] = "passed"
  /\ login' = [login EXCEPT ![l] = "failed"]
  /\ UNCHANGED <<factor, codes, confirm, disable, session,
                 setups, letIn, contested, mixed>>

Login(l) ==
  \/ ReadUser(l)
  \/ FindCode(l)
  \/ MarkCode(l)
  \/ CreateSession(l)
  \/ LoginFails(l)

\* The session's row is deleted.
Logout(l) ==
  /\ session[l] = "live"
  /\ session' = [session EXCEPT ![l] = "deleted"]
  /\ UNCHANGED <<factor, codes, confirm, disable, login,
                 setups, letIn, contested, mixed>>

FactorNext ==
  \/ \E s \in Confirms : Confirm(s)
  \/ \E d \in Disables : Disable(d)
  \/ \E l \in Logins : Login(l) \/ Logout(l)

FactorSpec == FactorInit /\ [][FactorNext]_factorVars

(***************************************************************************)
(* Properties.                                                             *)
(***************************************************************************)

\* Every variable keeps its type, and only a login that has passed has a session.
FactorTypeOK ==
  /\ factor \in Confirms \cup {NoFactor}
  /\ codes \in [Codes -> {"none", "unused", "used", "deleted"}]
  /\ confirm \in [Confirms -> {"new", "enabled", "shown", "failed"}]
  /\ disable \in [Disables -> {"new", "disabled", "done", "failed"}]
  /\ login \in [Logins -> {"new", "looking", "found", "passed", "in", "refused",
                           "failed"}]
  /\ session \in [Logins -> {"none", "live", "deleted"}]
  /\ \A l \in Logins : session[l] # "none" <=> login[l] = "in"
  /\ setups \subseteq Confirms
  /\ factor = NoFactor <=> setups = {}
  /\ letIn \subseteq Logins
  /\ contested \subseteq Codes
  /\ mixed \in BOOLEAN

\* A recovery code lets one login in, unless two logins had looked it up before
\* either marked it or the mark failed.
CodeWorksOnce ==
  \A k, l \in {m \in Logins : m \in letIn \/ login[m] = "found"} :
    k # l /\ Offer[k] = Offer[l] => Offer[k] \in contested

\* A code that can be used was made by a set-up since the factor was last switched
\* off, so none is left while the factor is off that would let somebody in after
\* the next set-up ("Disable 2FA for the user and remove recovery codes"), unless
\* set-ups and switchings off met or one failed halfway.  A set-up over another
\* takes nothing away: the unused codes of the replaced one go on letting in.
NoCodesLeftOver ==
  Disabling = {} /\ ~mixed => \A c \in Unused : c[1] \in setups

\* Every code a user was shown for the factor that is on can still be used or
\* has been, unless a switching off met its set-up.
ShownCodesWork ==
  \A s \in Confirms :
    factor = s /\ confirm[s] = "shown" /\ ~mixed =>
      \A c \in CodesOf(s) : codes[c] \in {"unused", "used"}

\* The recovery codes are those made since the factor was last off, those of the
\* set-up in force are all there, and each works once.
CodesHold ==
  /\ FactorTypeOK
  /\ CodeWorksOnce
  /\ NoCodesLeftOver
  /\ ShownCodesWork
=============================================================================
