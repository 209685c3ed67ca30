------------------------------- MODULE Signup -------------------------------
(***************************************************************************)
(* How an account comes to be: registration, the code that verifies its    *)
(* address, its password and how it is reset, and the mails.               *)
(*                                                                         *)
(* A call is a sequence of statements, each committed by itself: what one  *)
(* finds may have changed when the next one runs, and a call that fails    *)
(* leaves what it did.  A mail is on its own: the goroutine that sends it  *)
(* outlives the request, and may be late or lost.                          *)
(***************************************************************************)
EXTENDS FiniteSets

CONSTANTS
  Emails,
  Calls,    \* requests, and what they write: a password, a code, a reset token
  Offers,   \* what each of them may be
  EmailOf,  \* and for which address
  Nobody

ASSUME CallsAssumption ==
  /\ IsFiniteSet(Calls) /\ Nobody \notin Calls
  /\ DOMAIN Offers = Calls
  /\ EmailOf \in [Calls -> Emails]

VARIABLES
  users,     \* users, and (history) the calls that inserted, registered and verified each
  profiles,  \* vendors: the users that have a row
  secrets,   \* email_verification_tokens and password_reset_tokens, and who set used_at
  mail,      \* the mail with each of them
  call,      \* each request: what it does, and its next statement
  before     \* history: <<c, d>>, c ended before d began

rows == <<users, profiles, secrets>>
vars == <<rows, mail, call, before>>

Kinds == {"Register", "Resend", "VerifyEmail", "ForgotPassword", "ResetPassword"}

Outcomes == {"done", "refused", "failed"}

Kind(c) == call[c].kind
Began(c) == Kind(c) # "none"
Ended(c) == call[c].at \in Outcomes
UnderWay(c) == Began(c) /\ ~Ended(c)

\* The user's row of the address of c.
User(c) == users[EmailOf[c]]
Live(c) == User(c).status = "live"
Unverified(c) == Live(c) /\ User(c).verifiedBy = Nobody

Init ==
  /\ users = [e \in Emails |-> [status |-> "none", role |-> "buyer", password |-> Nobody,
                                created |-> Nobody, registered |-> Nobody, verifiedBy |-> Nobody]]
  /\ profiles = {}
  /\ secrets = [c \in Calls |-> [status |-> "none", by |-> Nobody]]
  /\ mail = [c \in Calls |-> "none"]
  /\ call = [c \in Calls |-> [kind |-> "none", role |-> "buyer", enters |-> c, at |-> "idle"]]
  /\ before = {}

Goes(c, s) == call' = [call EXCEPT ![c].at = s]

OwnRole == {"buyer", "vendor"}

\* A person enters a code, or follows a link, that a mail brought.
Arrive(c) ==
  /\ ~Began(c)
  /\ \E k \in Offers[c] \cap Kinds, r \in OwnRole, x \in Calls :
       /\ k # "Register" => r = "buyer"
       /\ IF k \in {"VerifyEmail", "ResetPassword"}
          THEN mail[x] = "arrived" /\ (k = "ResetPassword" <=> Kind(x) = "ForgotPassword")
          ELSE x = c
       /\ call' = [call EXCEPT ![c] = [kind |-> k, role |-> r, enters |-> x,
                                       at |-> IF k = "ResetPassword" THEN "Consume" ELSE "GetByEmail"]]
  /\ before' = before \union {<<d, c>> : d \in {e \in Calls : Ended(e)}}
  /\ UNCHANGED <<rows, mail>>

\* A statement fails, or the client has gone.
Fail(c) == UnderWay(c) /\ Goes(c, "failed") /\ UNCHANGED <<rows, mail, before>>

----------------------------------------------------------------------------
(* The account *)

\* Mistake: a verified account may register again.
Unregistered(c) == TRUE

Registrable(c) == ~Live(c) \/ Unverified(c)

\* For an unknown or a verified address there may be nothing to do.
GetByEmail(c) ==
  /\ call[c].at = "GetByEmail"
  /\ \/ /\ Kind(c) = "Register"
        /\ IF Registrable(c)
           THEN Goes(c, IF Live(c) THEN "UpdatePasswordAndRole" ELSE "CreateUser")
           ELSE Goes(c, "refused")
     \/ /\ Kind(c) = "Resend"
        /\ IF Unverified(c) THEN Goes(c, "RevokeActive") ELSE Goes(c, "done")
     \/ /\ Kind(c) = "ForgotPassword"
        /\ IF Live(c) THEN Goes(c, "Create") ELSE Goes(c, "done")
     \/ /\ Kind(c) = "VerifyEmail"
        /\ IF Unverified(c) THEN Goes(c, "Consume")
           ELSE Goes(c, IF Live(c) THEN "done" ELSE "refused")
  /\ UNCHANGED <<rows, mail, before>>

\* An address has one row, deleted or not. Only a new vendor gets a profile.
CreateUser(c) ==
  /\ call[c].at = "CreateUser"
  /\ IF User(c).status = "none" THEN
       /\ users' = [users EXCEPT ![EmailOf[c]] =
            [status |-> "live", role |-> call[c].role, password |-> c,
             created |-> c, registered |-> c, verifiedBy |-> Nobody]]
       /\ Goes(c, IF call[c].role = "vendor" THEN "CreateVendorProfile" ELSE "RevokeActive")
     ELSE Goes(c, "failed") /\ UNCHANGED users
  /\ UNCHANGED <<profiles, secrets, mail, before>>

UpdatePasswordAndRole(c) ==
  /\ call[c].at = "UpdatePasswordAndRole"
  /\ users' = IF Live(c)
              THEN [users EXCEPT ![EmailOf[c]] =
                     [status |-> "live", role |-> call[c].role, password |-> c, created |-> @.created,
                      registered |-> c, verifiedBy |-> @.verifiedBy]]
              ELSE users
  /\ Goes(c, "RevokeActive")
  /\ UNCHANGED <<profiles, secrets, mail, before>>

CreateVendorProfile(c) ==
  /\ call[c].at = "CreateVendorProfile"
  /\ profiles' = profiles \union {EmailOf[c]}
  /\ Goes(c, "RevokeActive")
  /\ UNCHANGED <<users, secrets, mail, before>>

MarkVerified(c) ==
  /\ call[c].at = "MarkVerified"
  /\ users' = IF Unverified(c) THEN [users EXCEPT ![EmailOf[c]].verifiedBy = c] ELSE users
  /\ Goes(c, "done")
  /\ UNCHANGED <<profiles, secrets, mail, before>>

\* The user of the token, deleted or not.
UpdatePassword(c) ==
  /\ call[c].at = "UpdatePassword"
  /\ users' = [users EXCEPT ![EmailOf[call[c].enters]].password = c]
  /\ Goes(c, "done")
  /\ UNCHANGED <<profiles, secrets, mail, before>>

\* An administrator deletes the user (Accounts).
SoftDelete(e) ==
  /\ users[e].status = "live"
  /\ users' = [users EXCEPT ![e].status = "deleted"]
  /\ UNCHANGED <<profiles, secrets, mail, call, before>>

----------------------------------------------------------------------------
(* Codes, reset tokens and their mails *)

IsCode(x) == Kind(x) \in {"Register", "Resend"}

\* Mistake: only what the mail has brought is revoked.
ActiveArrived(c) ==
  {x \in Calls : IsCode(x) /\ EmailOf[x] = EmailOf[c] /\ secrets[x].status = "active" /\ mail[x] = "arrived"}

ActiveCodes(c) == {x \in Calls : IsCode(x) /\ EmailOf[x] = EmailOf[c] /\ secrets[x].status = "active"}

RevokeActive(c) ==
  /\ call[c].at = "RevokeActive"
  /\ secrets' = [x \in Calls |-> IF x \in ActiveCodes(c) THEN [status |-> "used", by |-> c] ELSE secrets[x]]
  /\ Goes(c, "Create")
  /\ UNCHANGED <<users, profiles, mail, before>>

\* The goroutine that sends the mail starts. Register does not wait for it.
Create(c) ==
  /\ call[c].at = "Create"
  /\ secrets' = [secrets EXCEPT ![c].status = "active"]
  /\ mail' = [mail EXCEPT ![c] = "sending"]
  /\ IF Kind(c) = "Register" THEN Goes(c, "done") ELSE Goes(c, "Send")
  /\ UNCHANGED <<users, profiles, before>>

\* What has expired is refused too.
Consume(c) ==
  LET x == call[c].enters IN
  /\ call[c].at = "Consume"
  /\ \/ /\ secrets[x].status = "active"
        /\ Kind(c) = "VerifyEmail" => EmailOf[x] = EmailOf[c]
        /\ secrets' = [secrets EXCEPT ![x] = [status |-> "used", by |-> c]]
        /\ Goes(c, IF Kind(c) = "VerifyEmail" THEN "MarkVerified" ELSE "UpdatePassword")
     \/ Goes(c, "refused") /\ UNCHANGED secrets
  /\ UNCHANGED <<users, profiles, mail, before>>

\* The provider has taken the mail, or has not, and the sender is told, or is told
\* of an error that came after; a reset is answered alike whatever it is told.
Send(c) ==
  /\ call[c].at = "Send"
  /\ mail[c] # "sending"
  /\ \/ mail[c] = "arrived" /\ Goes(c, "done")
     \/ Goes(c, IF Kind(c) = "Resend" THEN "refused" ELSE "done")
  /\ UNCHANGED <<rows, mail, before>>

\* Late, after the request has gone, or never: an error, or a restart of the program.
Mail(x) ==
  /\ mail[x] = "sending"
  /\ \E outcome \in {"arrived", "lost"} : mail' = [mail EXCEPT ![x] = outcome]
  /\ UNCHANGED <<rows, call, before>>

----------------------------------------------------------------------------

Statement(c) ==
  \/ GetByEmail(c) \/ CreateUser(c) \/ UpdatePasswordAndRole(c) \/ CreateVendorProfile(c)
  \/ MarkVerified(c) \/ UpdatePassword(c)
  \/ RevokeActive(c) \/ Create(c) \/ Consume(c) \/ Send(c)

Next ==
  \/ \E c \in Calls : Arrive(c) \/ Statement(c) \/ Fail(c) \/ Mail(c)
  \/ \E e \in Emails : SoftDelete(e)

Spec == Init /\ [][Next]_vars

----------------------------------------------------------------------------
(* Correctness *)

UserRow ==
  [status : {"none", "live", "deleted"}, role : {"buyer", "vendor"}, password : Calls \union {Nobody},
   created : Calls \union {Nobody}, registered : Calls \union {Nobody}, verifiedBy : Calls \union {Nobody}]

SecretRow == [status : {"none", "active", "used"}, by : Calls \union {Nobody}]

Statements == {"GetByEmail", "CreateUser", "UpdatePasswordAndRole", "CreateVendorProfile",
               "RevokeActive", "Create", "Send", "Consume", "MarkVerified", "UpdatePassword"}

CallState ==
  [kind : Kinds \union {"none"}, role : {"buyer", "vendor"}, enters : Calls,
   at : Statements \union Outcomes \union {"idle"}]

\* The type of the state.
TypeOK ==
  /\ users \in [Emails -> UserRow]
  /\ profiles \subseteq Emails
  /\ secrets \in [Calls -> SecretRow]
  /\ mail \in [Calls -> {"none", "sending", "arrived", "lost"}]
  /\ call \in [Calls -> CallState]
  /\ before \subseteq Calls \X Calls

Overlap(c, d) == Began(c) /\ Began(d) /\ <<c, d>> \notin before /\ <<d, c>> \notin before

\* Two codes verify one address only if the requests that made them overlapped
\* (prepareVerificationOTP revokes and creates in two statements).
OneActiveCode ==
  \A c, d \in Calls :
    /\ c # d /\ EmailOf[c] = EmailOf[d] /\ IsCode(c) /\ IsCode(d)
    /\ secrets[c].status = "active" /\ secrets[d].status = "active"
    => Overlap(c, d)

\* The password and the role of a verified account are not those of a registration
\* that began after the verification had ended (Register: email_verified_at is read
\* before the bcrypt hash is written).
VerifiedAccountStays ==
  \A e \in Emails :
    LET v == users[e].verifiedBy IN
    v # Nobody /\ users[e].registered # Nobody => <<v, users[e].registered>> \notin before

\* What a call leaves half done, it leaves by failing: a code that was entered but
\* verified nothing, unless the user was deleted meanwhile, or a vendor without a
\* profile, unless the address was registered again. And a token resets one password.
HalfDoneByFailing ==
  /\ \A x, v \in Calls :
       secrets[x].by = v /\ Kind(v) = "VerifyEmail" /\ User(v).verifiedBy = Nobody
       => UnderWay(v) \/ call[v].at = "failed" \/ ~Live(v)
  /\ \A e \in Emails \ profiles :
       users[e].role = "vendor" =>
         \/ users[e].registered # users[e].created
         \/ UnderWay(users[e].created)
         \/ call[users[e].created].at = "failed"
  /\ \A v, w \in Calls :
       /\ Kind(v) = "ResetPassword" /\ Kind(w) = "ResetPassword"
       /\ call[v].at = "done" /\ call[w].at = "done" /\ call[v].enters = call[w].enters
       => v = w

AccountsHold == VerifiedAccountStays /\ HalfDoneByFailing
=============================================================================
