---------------------------- MODULE SignupProofs ----------------------------
(***************************************************************************)
(* Proofs about Signup, for any addresses and any requests at once.        *)
(***************************************************************************)
EXTENDS Signup, TLAPS

Early == {"idle", "GetByEmail", "CreateUser", "UpdatePasswordAndRole"}

\* Where each kind of request may be, and that it has made nothing yet before it
\* is past Create.
ShapeOf(c) ==
  /\ Kind(c) = "none" <=> call[c].at = "idle"
  /\ call[c].at \in {"CreateUser", "UpdatePasswordAndRole", "CreateVendorProfile"} => Kind(c) = "Register"
  /\ call[c].at = "RevokeActive" => IsCode(c)
  /\ call[c].at = "Create" => Kind(c) \in {"Register", "Resend", "ForgotPassword"}
  /\ call[c].at = "Send" => Kind(c) \in {"Resend", "ForgotPassword"}
  /\ call[c].at = "Consume" => Kind(c) \in {"VerifyEmail", "ResetPassword"}
  /\ call[c].at = "MarkVerified" => Kind(c) = "VerifyEmail"
  /\ call[c].at = "UpdatePassword" => Kind(c) = "ResetPassword"
  /\ call[c].at \notin Outcomes \union {"Send"} => secrets[c].status = "none"

Shape == \A c \in Calls : ShapeOf(c)

History == \A c, d \in Calls : <<c, d>> \in before => Ended(c) /\ Began(d)

\* Whoever is past RevokeActive has left no code of a request that ended before.
Superseded ==
  \A c, d \in Calls :
    /\ <<c, d>> \in before
    /\ IsCode(c) /\ IsCode(d) /\ EmailOf[c] = EmailOf[d]
    /\ call[d].at = "Create" \/ secrets[d].status # "none"
    => secrets[c].status # "active"

\* Who may have inserted and registered a user, and what is known of one that is new.
OriginOf(e) ==
  /\ users[e].status = "none" =>
       users[e].verifiedBy = Nobody /\ users[e].registered = Nobody /\ users[e].role = "buyer"
  /\ users[e].status # "none" => users[e].created \in Calls
  /\ users[e].registered # Nobody => call[users[e].registered].at \notin Early
  /\ users[e].created # Nobody =>
       /\ call[users[e].created].at \notin Early
       /\ EmailOf[users[e].created] = e

Origin == \A e \in Emails : OriginOf(e)

\* A registration that began after the verification has not found the user unverified.
LateIsNew ==
  \A r \in Calls :
    User(r).verifiedBy # Nobody /\ <<User(r).verifiedBy, r>> \in before
    => call[r].at # "UpdatePasswordAndRole"

\* A code that was entered is on its way to verify a user that exists.
CodeOnItsWay ==
  /\ \A v \in Calls : call[v].at \in {"Consume", "MarkVerified"} /\ Kind(v) = "VerifyEmail"
                      => User(v).status # "none"
  /\ \A x, v \in Calls :
       secrets[x].by = v /\ Kind(v) = "VerifyEmail" =>
         /\ call[v].at \in {"MarkVerified", "done", "failed"}
         /\ call[v].at = "done" /\ User(v).verifiedBy = Nobody => User(v).status = "deleted"
  /\ \A x, v \in Calls : secrets[x].by = v => Began(v)

\* The profile of a new vendor is its registration's next statement.
ProfileNext ==
  \A e \in Emails \ profiles :
    users[e].role = "vendor" /\ users[e].registered = users[e].created =>
      call[users[e].created].at \in {"CreateVendorProfile", "failed"}

\* Who resets a password has consumed the token.
TokenSpent ==
  \A v \in Calls :
    Kind(v) = "ResetPassword" /\ call[v].at \in {"UpdatePassword", "done"} =>
      secrets[call[v].enters].status = "used" /\ secrets[call[v].enters].by = v

IInv ==
  /\ TypeOK
  /\ Shape
  /\ History
  /\ Superseded
  /\ Origin
  /\ LateIsNew
  /\ VerifiedAccountStays
  /\ CodeOnItsWay
  /\ ProfileNext
  /\ TokenSpent

LEMMA InitIInv == Init => IInv
<1> SUFFICES ASSUME Init
             PROVE  IInv
  OBVIOUS
<1>1. TypeOK
  <2>1. users \in [Emails -> UserRow]
    BY DEF Init, UserRow
  <2>2. secrets \in [Calls -> SecretRow]
    BY DEF Init, SecretRow
  <2>3. call \in [Calls -> CallState]
    BY DEF Init, CallState
  <2>4. mail \in [Calls -> {"none", "sending", "arrived", "lost"}]
    BY DEF Init
  <2>. QED
    BY <2>1, <2>2, <2>3, <2>4 DEF Init, TypeOK
<1>2. \A c \in Calls : /\ call[c].at = "idle" /\ call[c].kind = "none"
                       /\ secrets[c].status = "none" /\ secrets[c].by = Nobody
  BY DEF Init
<1>3. \A e \in Emails : /\ users[e].status = "none" /\ users[e].verifiedBy = Nobody /\ users[e].role = "buyer"
                        /\ users[e].registered = Nobody /\ users[e].created = Nobody
  BY DEF Init
<1>4. Shape
  BY <1>2 DEF Shape, ShapeOf, Kind, IsCode
<1>5. History /\ Superseded
  BY DEF Init, History, Superseded
<1>6. Origin /\ LateIsNew /\ VerifiedAccountStays
  BY <1>2, <1>3 DEF Origin, OriginOf, LateIsNew, VerifiedAccountStays
<1>7. CodeOnItsWay /\ ProfileNext /\ TokenSpent
  BY <1>2, <1>3, CallsAssumption DEF CodeOnItsWay, ProfileNext, TokenSpent, Kind
<1>. QED
  BY <1>1, <1>4, <1>5, <1>6, <1>7 DEF IInv

\* c moves to s; the other requests stay.
Moved(c, s) ==
  /\ call' \in [Calls -> CallState]
  /\ call'[c].at = s
  /\ \A d \in Calls : call'[d].kind = call[d].kind /\ call'[d].enters = call[d].enters
  /\ \A d \in Calls \ {c} : call'[d] = call[d]

LEMMA Moves ==
  ASSUME TypeOK, NEW c \in Calls, NEW s \in Statements \union Outcomes, Goes(c, s)
  PROVE  Moved(c, s)
<1>1. call \in [Calls -> CallState]
  BY DEF TypeOK
<1>2. [call[c] EXCEPT !.at = s] \in CallState
  BY <1>1 DEF CallState
<1>3. call' = [call EXCEPT ![c] = [call[c] EXCEPT !.at = s]]
  BY DEF Goes
<1>. QED
  BY <1>1, <1>2, <1>3 DEF Moved, CallState

\* A request that goes on has not ended, and its kind and its place stay right.
LEMMA GoesOn ==
  ASSUME IInv, NEW c \in Calls, NEW s \in Statements \union Outcomes,
         call[c].at \in Statements, Moved(c, s), before' = before
  PROVE  /\ History'
         /\ \A d \in Calls : Kind(d)' = Kind(d) /\ (IsCode(d)' <=> IsCode(d))
         /\ \A d \in Calls : <<c, d>> \notin before
<1>1. \A d \in Calls : Kind(d)' = Kind(d) /\ (IsCode(d)' <=> IsCode(d))
  BY DEF Moved, Kind, IsCode
<1>2. ~Ended(c)
  BY DEF Ended, Statements, Outcomes
<1>3. \A d \in Calls : <<c, d>> \notin before
  BY <1>2 DEF IInv, History
<1>4. \A d, e \in Calls : <<d, e>> \in before' => Ended(d)' /\ Began(e)'
  <2> SUFFICES ASSUME NEW d \in Calls, NEW e \in Calls, <<d, e>> \in before
               PROVE  Ended(d)' /\ Began(e)'
    OBVIOUS
  <2>1. d # c /\ Ended(d) /\ Began(e)
    BY <1>3 DEF IInv, History
  <2>2. call'[d] = call[d]
    BY <2>1 DEF Moved
  <2>. QED
    BY <2>1, <2>2, <1>1 DEF Ended, Began
<1>. QED
  BY <1>1, <1>3, <1>4 DEF History

\* What the users' rows say of the requests stays true while these only go on.
LEMMA OriginKept ==
  ASSUME IInv, users' = users,
         \A d \in Calls : call[d].at \notin Early => call'[d].at \notin Early
  PROVE  Origin'
<1> SUFFICES ASSUME NEW e \in Emails
             PROVE  OriginOf(e)'
  BY DEF Origin
<1>1. OriginOf(e) /\ users[e] \in UserRow
  BY DEF IInv, Origin, TypeOK
<1>. QED
  BY <1>1 DEF OriginOf, UserRow

LEMMA GetByEmailKeeps == ASSUME IInv, NEW c \in Calls, GetByEmail(c) PROVE IInv'
<1>1. PICK s \in {"UpdatePasswordAndRole", "CreateUser", "Consume", "RevokeActive", "Create", "done", "refused"} :
        /\ Goes(c, s)
        /\ s = "UpdatePasswordAndRole" => Kind(c) = "Register" /\ Unverified(c)
        /\ s = "CreateUser" => Kind(c) = "Register"
        /\ s = "Consume" => Kind(c) = "VerifyEmail" /\ Live(c)
        /\ s = "RevokeActive" => Kind(c) = "Resend"
        /\ s = "Create" => Kind(c) = "ForgotPassword"
        /\ s = "done" => Kind(c) # "ResetPassword"
  <2>1. CASE Kind(c) = "Register" /\ Goes(c, "UpdatePasswordAndRole") /\ Unverified(c)
    BY <2>1
  <2>2. CASE Kind(c) = "Register" /\ Goes(c, "CreateUser")
    BY <2>2
  <2>3. CASE Goes(c, "refused")
    BY <2>3
  <2>4. CASE Kind(c) = "Resend" /\ Goes(c, "RevokeActive")
    BY <2>4
  <2>5. CASE Kind(c) # "ResetPassword" /\ Goes(c, "done")
    BY <2>5
  <2>6. CASE Kind(c) = "ForgotPassword" /\ Goes(c, "Create")
    BY <2>6
  <2>7. CASE Kind(c) = "VerifyEmail" /\ Goes(c, "Consume") /\ Live(c)
    BY <2>7
  <2>. QED
    BY <2>1, <2>2, <2>3, <2>4, <2>5, <2>6, <2>7 DEF GetByEmail, Registrable, Unverified
<1>2. /\ call[c].at = "GetByEmail" /\ s \in Statements \union Outcomes
      /\ users' = users /\ profiles' = profiles /\ secrets' = secrets /\ mail' = mail /\ before' = before
  BY DEF GetByEmail, rows, Statements, Outcomes
<1>3. Moved(c, s)
  BY <1>1, <1>2, Moves DEF IInv
<1>4. /\ History'
      /\ \A d \in Calls : Kind(d)' = Kind(d) /\ (IsCode(d)' <=> IsCode(d))
  BY <1>2, <1>3, GoesOn DEF Statements
<1>5. TypeOK'
  BY <1>2, <1>3 DEF IInv, TypeOK, Moved
<1>6. Shape'
  <2> SUFFICES ASSUME NEW d \in Calls
               PROVE  ShapeOf(d)'
    BY DEF Shape
  <2>1. ShapeOf(d) /\ ShapeOf(c)
    BY DEF IInv, Shape
  <2>2. CASE d = c
    BY <1>1, <1>2, <1>3, <1>4, <2>1, <2>2 DEF ShapeOf, Moved, IsCode, Outcomes
  <2>3. CASE d # c
    BY <1>2, <1>3, <1>4, <2>1, <2>3 DEF ShapeOf, Moved
  <2>. QED
    BY <2>2, <2>3
<1>7. Superseded'
  <2> SUFFICES ASSUME NEW d \in Calls, NEW e \in Calls, <<d, e>> \in before,
                      IsCode(d), IsCode(e), EmailOf[d] = EmailOf[e],
                      call'[e].at = "Create" \/ secrets[e].status # "none"
               PROVE  secrets[d].status # "active"
    BY <1>2, <1>4 DEF Superseded
  <2>1. e = c => s # "Create"
    BY <1>1 DEF IsCode
  <2>. QED
    BY <2>1, <1>2, <1>3 DEF IInv, Superseded, Moved
<1>8. Origin'
  BY <1>2, <1>3, OriginKept DEF Moved, Early
<1>9. LateIsNew'
  BY <1>1, <1>2, <1>3 DEF IInv, LateIsNew, Moved, User, Unverified
<1>10. VerifiedAccountStays'
  BY <1>2 DEF IInv, VerifiedAccountStays
<1>11. CodeOnItsWay'
  BY <1>1, <1>2, <1>3, <1>4 DEF IInv, CodeOnItsWay, Began, Moved, User, Live
<1>12. ProfileNext'
  <2> SUFFICES ASSUME NEW e \in Emails \ profiles,
                      users[e].role = "vendor", users[e].registered = users[e].created
               PROVE  call'[users[e].created].at \in {"CreateVendorProfile", "failed"}
    BY <1>2 DEF ProfileNext
  <2>1. call[users[e].created].at \in {"CreateVendorProfile", "failed"}
    BY DEF IInv, ProfileNext
  <2>2. users[e].created \in Calls
    BY DEF IInv, Origin, OriginOf
  <2>. QED
    BY <2>1, <2>2, <1>2, <1>3 DEF Moved
<1>13. TokenSpent'
  BY <1>1, <1>2, <1>3, <1>4 DEF IInv, TokenSpent, Moved
<1>. QED
  BY <1>4, <1>5, <1>6, <1>7, <1>8, <1>9, <1>10, <1>11, <1>12, <1>13 DEF IInv

\* The place of a request that ends, or whose statement changes only secrets
\* other than its own, is right.
LEMMA ShapeKept ==
  ASSUME IInv, NEW c \in Calls, NEW s \in Outcomes \union {"RevokeActive"}, Moved(c, s),
         call[c].at \in Statements,
         s = "RevokeActive" => Kind(c) = "Register" /\ call[c].at # "Send",
         secrets' = secrets
  PROVE  Shape'
<1> SUFFICES ASSUME NEW d \in Calls
             PROVE  ShapeOf(d)'
  BY DEF Shape
<1>1. ShapeOf(d) /\ ShapeOf(c)
  BY DEF IInv, Shape
<1>2. Kind(d)' = Kind(d) /\ (IsCode(d)' <=> IsCode(d))
  BY DEF Moved, Kind, IsCode
<1>3. CASE d = c
  BY <1>1, <1>2, <1>3 DEF ShapeOf, Moved, IsCode, Outcomes, Statements
<1>4. CASE d # c
  BY <1>1, <1>2, <1>4 DEF ShapeOf, Moved
<1>. QED
  BY <1>3, <1>4

\* A code that was superseded stays so while no secret changes, unless a request
\* is about to create one.
LEMMA SupersededKept ==
  ASSUME IInv, NEW c \in Calls, NEW s \in (Statements \ {"Create"}) \union Outcomes, Moved(c, s),
         secrets' = secrets, before' = before
  PROVE  Superseded'
<1>1. \A d \in Calls : IsCode(d)' <=> IsCode(d)
  BY DEF Moved, Kind, IsCode
<1>2. \A d \in Calls : call'[d].at = "Create" => call[d].at = "Create"
  BY DEF Moved, Outcomes
<1>. QED
  BY <1>1, <1>2 DEF IInv, Superseded

\* A new vendor's registration is where it was, or has failed.
LEMMA ProfileKept ==
  ASSUME IInv, NEW c \in Calls, NEW s \in Statements \union Outcomes, Moved(c, s),
         users' = users, profiles' = profiles,
         call[c].at = "CreateVendorProfile" \/ call[c].at = "failed" => s = "failed"
  PROVE  ProfileNext'
<1> SUFFICES ASSUME NEW e \in Emails \ profiles,
                    users[e].role = "vendor", users[e].registered = users[e].created
             PROVE  call'[users[e].created].at \in {"CreateVendorProfile", "failed"}
  BY DEF ProfileNext
<1>1. call[users[e].created].at \in {"CreateVendorProfile", "failed"}
  BY DEF IInv, ProfileNext
<1>2. users[e].created \in Calls
  BY DEF IInv, Origin, OriginOf
<1>. QED
  BY <1>1, <1>2 DEF Moved

\* A request that ends where it can change nothing: refused, failed, or with its mail sent.
LEMMA EndsKeeps ==
  ASSUME IInv, NEW c \in Calls, NEW s \in Outcomes, call[c].at \in Statements, Goes(c, s),
         s # "failed" => call[c].at = "Send" \/ (call[c].at = "Consume" /\ s = "refused"),
         UNCHANGED <<rows, mail, before>>
  PROVE  IInv'
<1>1. /\ users' = users /\ profiles' = profiles /\ secrets' = secrets /\ mail' = mail /\ before' = before
      /\ s \in (Statements \ {"Create"}) \union Outcomes
  BY DEF rows, Outcomes
<1>2. Moved(c, s)
  BY Moves DEF IInv
<1>3. /\ History'
      /\ \A d \in Calls : Kind(d)' = Kind(d) /\ (IsCode(d)' <=> IsCode(d))
  BY <1>1, <1>2, GoesOn
<1>4. TypeOK'
  BY <1>1, <1>2 DEF IInv, TypeOK, Moved
<1>5. Shape'
  BY <1>1, <1>2, ShapeKept DEF Outcomes
<1>6. Superseded'
  BY <1>1, <1>2, SupersededKept
<1>7. Origin'
  BY <1>1, <1>2, OriginKept DEF Moved, Early, Outcomes
<1>8. LateIsNew'
  BY <1>1, <1>2 DEF IInv, LateIsNew, Moved, User, Outcomes
<1>9. VerifiedAccountStays'
  BY <1>1 DEF IInv, VerifiedAccountStays
<1>10. CodeOnItsWay'
  BY <1>1, <1>2, <1>3 DEF IInv, CodeOnItsWay, Began, Moved, User, Outcomes, Shape, ShapeOf
<1>11. ProfileNext'
  BY <1>1, <1>2, ProfileKept DEF Outcomes, Statements
<1>12. TokenSpent'
  BY <1>1, <1>2, <1>3 DEF IInv, TokenSpent, Moved, Shape, ShapeOf, Outcomes
<1>. QED
  BY <1>3, <1>4, <1>5, <1>6, <1>7, <1>8, <1>9, <1>10, <1>11, <1>12 DEF IInv

LEMMA MailKeeps == ASSUME IInv, NEW x \in Calls, Mail(x) PROVE IInv'
<1>1. /\ users' = users /\ profiles' = profiles /\ secrets' = secrets /\ call' = call /\ before' = before
      /\ mail' \in [Calls -> {"none", "sending", "arrived", "lost"}]
  BY DEF IInv, TypeOK, Mail, rows
<1>2. TypeOK'
  BY <1>1 DEF IInv, TypeOK
<1>3. Shape' /\ History' /\ Superseded' /\ Origin' /\ LateIsNew'
  BY <1>1 DEF IInv, Shape, ShapeOf, History, Superseded, Origin, OriginOf, LateIsNew,
              Kind, IsCode, Ended, Began, User
<1>4. VerifiedAccountStays' /\ CodeOnItsWay' /\ ProfileNext' /\ TokenSpent'
  BY <1>1 DEF IInv, VerifiedAccountStays, CodeOnItsWay, Began, ProfileNext, TokenSpent, Kind, User
<1>. QED
  BY <1>2, <1>3, <1>4 DEF IInv

LEMMA SoftDeleteKeeps == ASSUME IInv, NEW e \in Emails, SoftDelete(e) PROVE IInv'
<1>1. /\ profiles' = profiles /\ secrets' = secrets /\ call' = call /\ before' = before /\ mail' = mail
      /\ users' = [users EXCEPT ![e].status = "deleted"]
      /\ users[e].status = "live"
  BY DEF SoftDelete
<1>2. users \in [Emails -> UserRow]
  BY DEF IInv, TypeOK
<1>3. /\ users' \in [Emails -> UserRow]
      /\ \A f \in Emails :
           /\ users'[f].role = users[f].role /\ users'[f].created = users[f].created
           /\ users'[f].registered = users[f].registered /\ users'[f].verifiedBy = users[f].verifiedBy
           /\ users'[f].status = IF f = e THEN "deleted" ELSE users[f].status
  BY <1>1, <1>2 DEF UserRow
<1>4. TypeOK'
  BY <1>1, <1>3 DEF IInv, TypeOK
<1>5. Shape' /\ History' /\ Superseded'
  BY <1>1 DEF IInv, Shape, ShapeOf, History, Superseded, Kind, IsCode, Ended, Began
<1>6. Origin'
  BY <1>1, <1>3 DEF IInv, Origin, OriginOf
<1>7. LateIsNew'
  BY <1>1, <1>3, CallsAssumption DEF IInv, LateIsNew, User
<1>8. VerifiedAccountStays'
  BY <1>1, <1>3 DEF IInv, VerifiedAccountStays
<1>9. CodeOnItsWay'
  BY <1>1, <1>3, CallsAssumption DEF IInv, CodeOnItsWay, Began, User, Kind
<1>10. ProfileNext' /\ TokenSpent'
  BY <1>1, <1>3 DEF IInv, ProfileNext, TokenSpent, Kind
<1>. QED
  BY <1>4, <1>5, <1>6, <1>7, <1>8, <1>9, <1>10 DEF IInv

LEMMA RevokeActiveKeeps == ASSUME IInv, NEW c \in Calls, RevokeActive(c) PROVE IInv'
<1>1. /\ users' = users /\ profiles' = profiles /\ mail' = mail /\ before' = before
      /\ call[c].at = "RevokeActive" /\ Goes(c, "Create") /\ "Create" \in Statements \union Outcomes
      /\ secrets' = [x \in Calls |-> IF x \in ActiveCodes(c) THEN [status |-> "used", by |-> c] ELSE secrets[x]]
  BY DEF RevokeActive, Statements
<1>2. Moved(c, "Create")
  BY <1>1, Moves DEF IInv
<1>3. /\ History'
      /\ \A d \in Calls : Kind(d)' = Kind(d) /\ (IsCode(d)' <=> IsCode(d))
      /\ \A d \in Calls : <<c, d>> \notin before
  BY <1>1, <1>2, GoesOn DEF Statements
<1>4. \A x \in Calls :
        /\ x \in ActiveCodes(c) => secrets[x].status = "active" /\ secrets'[x].status = "used" /\ secrets'[x].by = c
        /\ x \notin ActiveCodes(c) => secrets'[x] = secrets[x]
  BY <1>1 DEF ActiveCodes
<1>5. TypeOK'
  <2>1. secrets' \in [Calls -> SecretRow]
    BY <1>1 DEF IInv, TypeOK, SecretRow
  <2>. QED
    BY <2>1, <1>1, <1>2 DEF IInv, TypeOK, Moved
<1>6. IsCode(c) /\ secrets[c].status = "none"
  BY <1>1 DEF IInv, Shape, ShapeOf, Outcomes
<1>7. Shape'
  <2> SUFFICES ASSUME NEW d \in Calls
               PROVE  ShapeOf(d)'
    BY DEF Shape
  <2>1. ShapeOf(d)
    BY DEF IInv, Shape
  <2>2. CASE d = c
    BY <1>1, <1>2, <1>3, <1>4, <1>6, <2>1, <2>2 DEF ShapeOf, Moved, IsCode, Outcomes
  <2>3. CASE d # c
    BY <1>2, <1>3, <1>4, <2>1, <2>3 DEF ShapeOf, Moved
  <2>. QED
    BY <2>2, <2>3
<1>8. Superseded'
  <2> SUFFICES ASSUME NEW d \in Calls, NEW e \in Calls, <<d, e>> \in before,
                      IsCode(d), IsCode(e), EmailOf[d] = EmailOf[e],
                      call'[e].at = "Create" \/ secrets'[e].status # "none",
                      secrets'[d].status = "active"
               PROVE  FALSE
    BY <1>1, <1>3 DEF Superseded
  <2>1. secrets[d].status = "active" /\ d \notin ActiveCodes(c)
    BY <1>4
  <2>2. CASE e = c
    BY <2>1, <2>2 DEF ActiveCodes
  <2>3. CASE e # c
    <3>1. call[e].at = "Create" \/ secrets[e].status # "none"
      BY <1>2, <1>4, <2>3 DEF Moved
    <3>. QED
      BY <3>1, <2>1 DEF IInv, Superseded
  <2>. QED
    BY <2>2, <2>3
<1>9. Origin'
  BY <1>1, <1>2, OriginKept DEF Moved, Early
<1>10. LateIsNew'
  BY <1>1, <1>2 DEF IInv, LateIsNew, Moved, User
<1>11. VerifiedAccountStays'
  BY <1>1 DEF IInv, VerifiedAccountStays
<1>12. CodeOnItsWay'
  <2>1. \A x, v \in Calls : secrets'[x].by = v => secrets[x].by = v \/ v = c
    BY <1>4
  <2>. QED
    BY <2>1, <1>1, <1>2, <1>3, <1>6 DEF IInv, CodeOnItsWay, Began, IsCode, Moved, User
<1>13. ProfileNext'
  BY <1>1, <1>2, ProfileKept
<1>14. TokenSpent'
  <2> SUFFICES ASSUME NEW v \in Calls, Kind(v) = "ResetPassword", call'[v].at \in {"UpdatePassword", "done"}
               PROVE  secrets'[call'[v].enters].status = "used" /\ secrets'[call'[v].enters].by = v
    BY <1>3 DEF TokenSpent
  <2>1. v # c
    BY <1>6 DEF IsCode
  <2>2. call'[v] = call[v] /\ call[v].enters \in Calls
    BY <2>1, <1>2 DEF Moved, IInv, TypeOK, CallState
  <2>3. secrets[call[v].enters].status = "used" /\ secrets[call[v].enters].by = v
    BY <2>2 DEF IInv, TokenSpent
  <2>4. secrets'[call[v].enters] = secrets[call[v].enters]
    BY <2>2, <2>3, <1>4
  <2>. QED
    BY <2>2, <2>3, <2>4
<1>. QED
  BY <1>3, <1>5, <1>7, <1>8, <1>9, <1>10, <1>11, <1>12, <1>13, <1>14 DEF IInv

LEMMA CreateKeeps == ASSUME IInv, NEW c \in Calls, Create(c) PROVE IInv'
<1>1. PICK s \in {"done", "Send"} :
        /\ Goes(c, s)
        /\ Kind(c) = "Register" <=> s = "done"
  BY DEF Create
<1>2. /\ users' = users /\ profiles' = profiles /\ before' = before
      /\ call[c].at = "Create" /\ s \in Statements \union Outcomes
      /\ secrets' = [secrets EXCEPT ![c].status = "active"]
      /\ mail' = [mail EXCEPT ![c] = "sending"]
  BY DEF Create, Statements, Outcomes
<1>3. Moved(c, s)
  BY <1>1, <1>2, Moves DEF IInv
<1>4. /\ History'
      /\ \A d \in Calls : Kind(d)' = Kind(d) /\ (IsCode(d)' <=> IsCode(d))
      /\ \A d \in Calls : <<c, d>> \notin before
  BY <1>2, <1>3, GoesOn DEF Statements
<1>5. secrets \in [Calls -> SecretRow]
  BY DEF IInv, TypeOK
<1>6. /\ secrets' \in [Calls -> SecretRow]
      /\ secrets'[c].status = "active"
      /\ \A x \in Calls : secrets'[x].by = secrets[x].by
      /\ \A x \in Calls \ {c} : secrets'[x] = secrets[x]
  BY <1>2, <1>5 DEF SecretRow
<1>7. TypeOK'
  BY <1>2, <1>3, <1>6 DEF IInv, TypeOK, Moved
<1>8. secrets[c].status = "none" /\ Kind(c) \in {"Register", "Resend", "ForgotPassword"}
  BY <1>2 DEF IInv, Shape, ShapeOf, Outcomes
<1>9. Shape'
  <2> SUFFICES ASSUME NEW d \in Calls
               PROVE  ShapeOf(d)'
    BY DEF Shape
  <2>1. ShapeOf(d)
    BY DEF IInv, Shape
  <2>2. CASE d = c
    BY <1>1, <1>2, <1>3, <1>4, <1>8, <2>1, <2>2 DEF ShapeOf, Moved, IsCode, Outcomes
  <2>3. CASE d # c
    BY <1>3, <1>4, <1>6, <2>1, <2>3 DEF ShapeOf, Moved
  <2>. QED
    BY <2>2, <2>3
<1>10. Superseded'
  BY <1>2, <1>3, <1>4, <1>6 DEF IInv, Superseded, Moved
<1>11. Origin'
  BY <1>2, <1>3, OriginKept DEF Moved, Early
<1>12. LateIsNew'
  BY <1>2, <1>3 DEF IInv, LateIsNew, Moved, User
<1>13. VerifiedAccountStays'
  BY <1>2 DEF IInv, VerifiedAccountStays
<1>14. CodeOnItsWay'
  BY <1>2, <1>3, <1>4, <1>6, <1>8 DEF IInv, CodeOnItsWay, Began, Moved, User
<1>15. ProfileNext'
  BY <1>2, <1>3, ProfileKept
<1>16. TokenSpent'
  <2> SUFFICES ASSUME NEW v \in Calls, Kind(v) = "ResetPassword", call'[v].at \in {"UpdatePassword", "done"}
               PROVE  secrets'[call'[v].enters].status = "used" /\ secrets'[call'[v].enters].by = v
    BY <1>4 DEF TokenSpent
  <2>1. v # c
    BY <1>8
  <2>2. call'[v] = call[v] /\ call[v].enters \in Calls
    BY <2>1, <1>3 DEF Moved, IInv, TypeOK, CallState
  <2>3. secrets[call[v].enters].status = "used" /\ secrets[call[v].enters].by = v
    BY <2>2 DEF IInv, TokenSpent
  <2>4. call[v].enters # c
    BY <2>3, <1>8
  <2>. QED
    BY <2>2, <2>3, <2>4, <1>6
<1>. QED
  BY <1>4, <1>7, <1>9, <1>10, <1>11, <1>12, <1>13, <1>14, <1>15, <1>16 DEF IInv

LEMMA ConsumeKeeps == ASSUME IInv, NEW c \in Calls, Consume(c) PROVE IInv'
<1>1. CASE Goes(c, "refused") /\ UNCHANGED secrets
  BY <1>1, EndsKeeps DEF Consume, rows, Statements, Outcomes
<1> DEFINE x == call[c].enters
           s == IF Kind(c) = "VerifyEmail" THEN "MarkVerified" ELSE "UpdatePassword"
<1>2. CASE /\ secrets[x].status = "active"
           /\ Kind(c) = "VerifyEmail" => EmailOf[x] = EmailOf[c]
           /\ secrets' = [secrets EXCEPT ![x] = [status |-> "used", by |-> c]]
           /\ Goes(c, s)
  <2>1. /\ users' = users /\ profiles' = profiles /\ mail' = mail /\ before' = before
        /\ call[c].at = "Consume" /\ s \in Statements \union Outcomes
        /\ s \in (Statements \ {"Create"}) \union Outcomes
        /\ call[c].at \in Statements
    BY DEF Consume, Statements
  <2>2. x \in Calls
    BY DEF IInv, TypeOK, CallState
  <2>3. Moved(c, s)
    BY <1>2, <2>1, Moves DEF IInv
  <2>4. /\ History'
        /\ \A d \in Calls : Kind(d)' = Kind(d) /\ (IsCode(d)' <=> IsCode(d))
    <3> HIDE DEF s
    <3>. QED
      BY <2>1, <2>3, GoesOn
  <2>5. /\ secrets' \in [Calls -> SecretRow]
        /\ secrets'[x].status = "used" /\ secrets'[x].by = c
        /\ \A y \in Calls \ {x} : secrets'[y] = secrets[y]
    BY <1>2, <2>2 DEF IInv, TypeOK, SecretRow
  <2>6. /\ Kind(c) \in {"VerifyEmail", "ResetPassword"} /\ secrets[c].status = "none"
        /\ c # x
    BY <1>2, <2>1 DEF IInv, Shape, ShapeOf, Outcomes
  <2>7. TypeOK'
    BY <2>1, <2>3, <2>5 DEF IInv, TypeOK, Moved
  <2>8. Shape'
    <3> SUFFICES ASSUME NEW d \in Calls
                 PROVE  ShapeOf(d)'
      BY DEF Shape
    <3>1. ShapeOf(d) /\ call'[d].at \notin Outcomes \union {"Send"} => secrets'[d].status = "none"
      <4>1. d = c => secrets'[d].status = "none"
        BY <2>5, <2>6
      <4>2. d # c => call'[d] = call[d]
        BY <2>3 DEF Moved
      <4>. QED
        BY <4>1, <4>2, <1>2, <2>5 DEF ShapeOf
    <3>2. CASE d = c
      BY <2>3, <2>4, <2>6, <3>1, <3>2 DEF ShapeOf, IInv, Shape, Moved
    <3>3. CASE d # c
      BY <2>3, <2>4, <3>1, <3>3 DEF ShapeOf, IInv, Shape, Moved
    <3>. QED
      BY <3>2, <3>3
  <2>9. Superseded'
    <3> SUFFICES ASSUME NEW d \in Calls, NEW e \in Calls, <<d, e>> \in before,
                        IsCode(d), IsCode(e), EmailOf[d] = EmailOf[e],
                        call'[e].at = "Create" \/ secrets'[e].status # "none"
                 PROVE  secrets'[d].status # "active"
      BY <2>1, <2>4 DEF Superseded
    <3>1. call[e].at = "Create" \/ secrets[e].status # "none"
      BY <1>2, <2>3, <2>5 DEF Moved
    <3>2. secrets[d].status # "active"
      BY <3>1 DEF IInv, Superseded
    <3>. QED
      BY <3>2, <2>5
  <2>10. Origin'
    BY <2>1, <2>3, OriginKept DEF Moved, Early
  <2>11. LateIsNew'
    BY <2>1, <2>3 DEF IInv, LateIsNew, Moved, User
  <2>12. VerifiedAccountStays'
    BY <2>1 DEF IInv, VerifiedAccountStays
  <2>13. CodeOnItsWay'
    BY <2>1, <2>3, <2>4, <2>5, <2>6 DEF IInv, CodeOnItsWay, Began, Moved, User
  <2>14. ProfileNext'
    <3> HIDE DEF s
    <3>. QED
      BY <2>1, <2>3, ProfileKept
  <2>15. TokenSpent'
    <3> SUFFICES ASSUME NEW v \in Calls, Kind(v) = "ResetPassword", call'[v].at \in {"UpdatePassword", "done"}
                 PROVE  secrets'[call'[v].enters].status = "used" /\ secrets'[call'[v].enters].by = v
      BY <2>4 DEF TokenSpent
    <3>1. CASE v = c
      BY <3>1, <2>3, <2>5 DEF Moved
    <3>2. CASE v # c
      <4>1. call'[v] = call[v] /\ call[v].enters \in Calls
        BY <3>2, <2>3 DEF Moved, IInv, TypeOK, CallState
      <4>2. secrets[call[v].enters].status = "used" /\ secrets[call[v].enters].by = v
        BY <4>1 DEF IInv, TokenSpent
      <4>. QED
        BY <4>1, <4>2, <1>2, <2>5
    <3>. QED
      BY <3>1, <3>2
  <2>. QED
    BY <2>4, <2>7, <2>8, <2>9, <2>10, <2>11, <2>12, <2>13, <2>14, <2>15 DEF IInv
<1>. QED
  BY <1>1, <1>2 DEF Consume

\* A registration's request has set nobody's used_at.
LEMMA TokenKept ==
  ASSUME IInv, NEW c \in Calls, NEW s \in Statements \union Outcomes, Moved(c, s),
         secrets' = secrets,
         Kind(c) = "ResetPassword" => call[c].at = "UpdatePassword"
  PROVE  TokenSpent'
<1>1. \A d \in Calls : Kind(d)' = Kind(d)
  BY DEF Moved, Kind
<1>. QED
  BY <1>1 DEF IInv, TokenSpent, Moved

LEMMA CreateUserKeeps == ASSUME IInv, NEW c \in Calls, CreateUser(c) PROVE IInv'
<1>1. CASE User(c).status # "none"
  BY <1>1, EndsKeeps DEF CreateUser, rows, Statements, Outcomes
<1> DEFINE a == EmailOf[c]
           s == IF call[c].role = "vendor" THEN "CreateVendorProfile" ELSE "RevokeActive"
           row == [status |-> "live", role |-> call[c].role, password |-> c,
                   created |-> c, registered |-> c, verifiedBy |-> Nobody]
<1>2. CASE User(c).status = "none"
  <2>1. /\ profiles' = profiles /\ secrets' = secrets /\ mail' = mail /\ before' = before
        /\ call[c].at = "CreateUser" /\ s \in (Statements \ {"Create"}) \union Outcomes
        /\ s \in Statements \union Outcomes /\ call[c].at \in Statements
        /\ Goes(c, s) /\ users' = [users EXCEPT ![a] = row]
        /\ s \in {"CreateVendorProfile", "RevokeActive"}
    BY <1>2 DEF CreateUser, Statements
  <2>2. a \in Emails /\ row \in UserRow /\ Kind(c) = "Register"
    BY <2>1, CallsAssumption DEF UserRow, IInv, TypeOK, CallState, Shape, ShapeOf
  <2>3. /\ users' \in [Emails -> UserRow] /\ users'[a] = row
        /\ \A e \in Emails \ {a} : users'[e] = users[e]
    BY <2>1, <2>2 DEF IInv, TypeOK
  <2>4. users[a].status = "none" /\ users[a].verifiedBy = Nobody
    BY <1>2, <2>2 DEF User, IInv, Origin, OriginOf
  <2> HIDE DEF s
  <2>5. Moved(c, s)
    BY <2>1, Moves DEF IInv
  <2>6. /\ History'
        /\ \A d \in Calls : Kind(d)' = Kind(d) /\ (IsCode(d)' <=> IsCode(d))
    BY <2>1, <2>5, GoesOn
  <2>7. TypeOK'
    BY <2>1, <2>3, <2>5 DEF IInv, TypeOK, Moved
  <2>8. Shape'
    <3> SUFFICES ASSUME NEW d \in Calls
                 PROVE  ShapeOf(d)'
      BY DEF Shape
    <3>1. ShapeOf(d)
      BY DEF IInv, Shape
    <3>2. CASE d = c
      BY <2>1, <2>2, <2>5, <2>6, <3>1, <3>2 DEF ShapeOf, Moved, IsCode, Outcomes
    <3>3. CASE d # c
      BY <2>1, <2>5, <2>6, <3>1, <3>3 DEF ShapeOf, Moved
    <3>. QED
      BY <3>2, <3>3
  <2>9. Superseded'
    BY <2>1, <2>5, SupersededKept
  <2>10. Origin'
    <3> SUFFICES ASSUME NEW e \in Emails
                 PROVE  OriginOf(e)'
      BY DEF Origin
    <3>1. CASE e = a
      BY <3>1, <2>1, <2>3, <2>5 DEF OriginOf, Moved, Early
    <3>2. CASE e # a
      <4>1. OriginOf(e) /\ users[e] \in UserRow
        BY DEF IInv, Origin, TypeOK
      <4>. QED
        BY <4>1, <3>2, <2>1, <2>3, <2>5 DEF OriginOf, Moved, Early, UserRow
    <3>. QED
      BY <3>1, <3>2
  <2>11. LateIsNew'
    <3> SUFFICES ASSUME NEW r \in Calls, User(r)'.verifiedBy # Nobody, <<User(r)'.verifiedBy, r>> \in before
                 PROVE  call'[r].at # "UpdatePasswordAndRole"
      BY <2>1 DEF LateIsNew
    <3>1. EmailOf[r] \in Emails /\ EmailOf[r] # a
      BY <2>3, CallsAssumption DEF User
    <3>2. User(r)' = User(r)
      BY <3>1, <2>3 DEF User
    <3>. QED
      BY <3>2, <2>1, <2>5 DEF IInv, LateIsNew, Moved
  <2>12. VerifiedAccountStays'
    BY <2>1, <2>3 DEF IInv, VerifiedAccountStays
  <2>13. CodeOnItsWay'
    <3>1. \A v \in Calls : /\ EmailOf[v] = a => User(v)' = row /\ User(v) = users[a]
                           /\ EmailOf[v] # a => User(v)' = User(v)
      BY <2>3, CallsAssumption DEF User
    <3>. QED
      BY <3>1, <2>1, <2>2, <2>4, <2>5, <2>6 DEF IInv, CodeOnItsWay, Began, Moved
  <2>14. ProfileNext'
    <3> SUFFICES ASSUME NEW e \in Emails \ profiles,
                        users'[e].role = "vendor", users'[e].registered = users'[e].created
                 PROVE  call'[users'[e].created].at \in {"CreateVendorProfile", "failed"}
      BY <2>1 DEF ProfileNext
    <3>1. CASE e = a
      BY <3>1, <2>3, <2>5 DEF Moved, s
    <3>2. CASE e # a
      <4>1. users'[e] = users[e]
        BY <3>2, <2>3
      <4>2. call[users[e].created].at \in {"CreateVendorProfile", "failed"} /\ users[e].created \in Calls
        BY <4>1 DEF IInv, ProfileNext, Origin, OriginOf
      <4>. QED
        BY <4>1, <4>2, <2>1, <2>5 DEF Moved
    <3>. QED
      BY <3>1, <3>2
  <2>15. TokenSpent'
    BY <2>1, <2>2, <2>5, TokenKept
  <2>. QED
    BY <2>6, <2>7, <2>8, <2>9, <2>10, <2>11, <2>12, <2>13, <2>14, <2>15 DEF IInv
<1>. QED
  BY <1>1, <1>2

LEMMA UpdatePasswordAndRoleKeeps == ASSUME IInv, NEW c \in Calls, UpdatePasswordAndRole(c) PROVE IInv'
<1> DEFINE a == EmailOf[c]
<1>1. /\ profiles' = profiles /\ secrets' = secrets /\ mail' = mail /\ before' = before
      /\ call[c].at = "UpdatePasswordAndRole" /\ Goes(c, "RevokeActive")
      /\ "RevokeActive" \in Statements /\ call[c].at \in Statements
      /\ "RevokeActive" \in (Statements \ {"Create"}) \union Outcomes
  BY DEF UpdatePasswordAndRole, Statements
<1>2. a \in Emails /\ Kind(c) = "Register" /\ call[c].role \in {"buyer", "vendor"}
  BY <1>1, CallsAssumption DEF IInv, TypeOK, CallState, Shape, ShapeOf
<1>3. /\ users' \in [Emails -> UserRow]
      /\ \A e \in Emails :
           /\ users'[e].status = users[e].status /\ users'[e].verifiedBy = users[e].verifiedBy
           /\ users'[e].created = users[e].created
           /\ users'[e] # users[e] => e = a /\ users'[e].registered = c /\ users[e].status = "live"
  <2>1. CASE ~Live(c)
    BY <2>1, <1>1 DEF UpdatePasswordAndRole, IInv, TypeOK
  <2>2. CASE Live(c)
    <3> DEFINE row == [status |-> "live", role |-> call[c].role, password |-> c, created |-> users[a].created,
                       registered |-> c, verifiedBy |-> users[a].verifiedBy]
    <3>1. users \in [Emails -> UserRow] /\ users[a] \in UserRow
      BY <1>2 DEF IInv, TypeOK
    <3>2. row \in UserRow
      BY <1>2, <3>1 DEF UserRow
    <3>3. users' = [users EXCEPT ![a] = row] /\ users[a].status = "live"
      BY <2>2 DEF UpdatePasswordAndRole, Live, User
    <3>. QED
      BY <1>2, <3>1, <3>2, <3>3
  <2>. QED
    BY <2>1, <2>2
<1>4. Moved(c, "RevokeActive")
  BY <1>1, Moves DEF IInv
<1>5. /\ History'
      /\ \A d \in Calls : Kind(d)' = Kind(d) /\ (IsCode(d)' <=> IsCode(d))
  BY <1>1, <1>4, GoesOn
<1>6. TypeOK'
  BY <1>1, <1>3, <1>4 DEF IInv, TypeOK, Moved
<1>7. Shape'
  BY <1>1, <1>2, <1>4, ShapeKept
<1>8. Superseded'
  BY <1>1, <1>4, SupersededKept
<1>9. Origin'
  <2> SUFFICES ASSUME NEW e \in Emails
               PROVE  OriginOf(e)'
    BY DEF Origin
  <2>1. OriginOf(e) /\ users[e] \in UserRow
    BY DEF IInv, Origin, TypeOK
  <2>. QED
    BY <2>1, <1>1, <1>3, <1>4 DEF OriginOf, Moved, Early, UserRow
<1>10. LateIsNew'
  BY <1>1, <1>3, <1>4, CallsAssumption DEF IInv, LateIsNew, Moved, User
<1>11. VerifiedAccountStays'
  <2> SUFFICES ASSUME NEW e \in Emails, users[e].verifiedBy # Nobody, users'[e].registered # Nobody
               PROVE  <<users[e].verifiedBy, users'[e].registered>> \notin before
    BY <1>1, <1>3 DEF VerifiedAccountStays
  <2>1. CASE users'[e] = users[e]
    BY <2>1 DEF IInv, VerifiedAccountStays
  <2>2. CASE users'[e] # users[e]
    BY <2>2, <1>1, <1>3 DEF IInv, LateIsNew, User
  <2>. QED
    BY <2>1, <2>2
<1>12. CodeOnItsWay'
  BY <1>1, <1>2, <1>3, <1>4, <1>5, CallsAssumption DEF IInv, CodeOnItsWay, Began, Moved, User
<1>13. ProfileNext'
  <2> SUFFICES ASSUME NEW e \in Emails \ profiles,
                      users'[e].role = "vendor", users'[e].registered = users'[e].created
               PROVE  call'[users'[e].created].at \in {"CreateVendorProfile", "failed"}
    BY <1>1 DEF ProfileNext
  <2>1. OriginOf(e) /\ users[e] \in UserRow
    BY DEF IInv, Origin, TypeOK
  <2>2. users'[e] = users[e]
    BY <2>1, <1>1, <1>3, CallsAssumption DEF OriginOf, Early
  <2>3. call[users[e].created].at \in {"CreateVendorProfile", "failed"} /\ users[e].created \in Calls
    BY <2>1, <2>2 DEF IInv, ProfileNext, OriginOf
  <2>. QED
    BY <2>2, <2>3, <1>1, <1>4 DEF Moved
<1>14. TokenSpent'
  BY <1>1, <1>2, <1>4, TokenKept
<1>. QED
  BY <1>5, <1>6, <1>7, <1>8, <1>9, <1>10, <1>11, <1>12, <1>13, <1>14 DEF IInv

LEMMA CreateVendorProfileKeeps == ASSUME IInv, NEW c \in Calls, CreateVendorProfile(c) PROVE IInv'
<1>1. /\ users' = users /\ secrets' = secrets /\ mail' = mail /\ before' = before
      /\ call[c].at = "CreateVendorProfile" /\ Goes(c, "RevokeActive")
      /\ profiles' = profiles \union {EmailOf[c]}
      /\ "RevokeActive" \in Statements /\ call[c].at \in Statements
      /\ "RevokeActive" \in (Statements \ {"Create"}) \union Outcomes
  BY DEF CreateVendorProfile, Statements
<1>2. Kind(c) = "Register" /\ profiles' \subseteq Emails
  BY <1>1, CallsAssumption DEF IInv, TypeOK, Shape, ShapeOf
<1>3. Moved(c, "RevokeActive")
  BY <1>1, Moves DEF IInv
<1>4. /\ History'
      /\ \A d \in Calls : Kind(d)' = Kind(d) /\ (IsCode(d)' <=> IsCode(d))
  BY <1>1, <1>3, GoesOn
<1>5. TypeOK'
  BY <1>1, <1>2, <1>3 DEF IInv, TypeOK, Moved
<1>6. Shape'
  BY <1>1, <1>2, <1>3, ShapeKept
<1>7. Superseded'
  BY <1>1, <1>3, SupersededKept
<1>8. Origin'
  BY <1>1, <1>3, OriginKept DEF Moved, Early
<1>9. LateIsNew' /\ VerifiedAccountStays'
  BY <1>1, <1>3 DEF IInv, LateIsNew, VerifiedAccountStays, Moved, User
<1>10. CodeOnItsWay'
  BY <1>1, <1>2, <1>3, <1>4 DEF IInv, CodeOnItsWay, Began, Moved, User
<1>11. ProfileNext'
  <2> SUFFICES ASSUME NEW e \in Emails \ profiles, e # EmailOf[c],
                      users[e].role = "vendor", users[e].registered = users[e].created
               PROVE  call'[users[e].created].at \in {"CreateVendorProfile", "failed"}
    BY <1>1 DEF ProfileNext
  <2>1. OriginOf(e) /\ users[e] \in UserRow
    BY DEF IInv, Origin, TypeOK
  <2>2. call[users[e].created].at \in {"CreateVendorProfile", "failed"} /\ users[e].created \in Calls
    BY <2>1 DEF IInv, ProfileNext, OriginOf
  <2>3. users[e].created # c
    BY <2>1, <2>2, CallsAssumption DEF OriginOf
  <2>. QED
    BY <2>2, <2>3, <1>3 DEF Moved
<1>12. TokenSpent'
  BY <1>1, <1>2, <1>3, TokenKept
<1>. QED
  BY <1>4, <1>5, <1>6, <1>7, <1>8, <1>9, <1>10, <1>11, <1>12 DEF IInv

LEMMA MarkVerifiedKeeps == ASSUME IInv, NEW c \in Calls, MarkVerified(c) PROVE IInv'
<1> DEFINE a == EmailOf[c]
<1>1. /\ profiles' = profiles /\ secrets' = secrets /\ mail' = mail /\ before' = before
      /\ call[c].at = "MarkVerified" /\ Goes(c, "done")
      /\ "done" \in Outcomes \union {"RevokeActive"} /\ call[c].at \in Statements
      /\ "done" \in (Statements \ {"Create"}) \union Outcomes
  BY DEF MarkVerified, Statements, Outcomes
<1>2. a \in Emails /\ Kind(c) = "VerifyEmail"
  BY <1>1, CallsAssumption DEF IInv, Shape, ShapeOf
<1>3. users \in [Emails -> UserRow]
  BY DEF IInv, TypeOK
<1>4. /\ users' \in [Emails -> UserRow]
      /\ \A e \in Emails :
           /\ users'[e].status = users[e].status /\ users'[e].registered = users[e].registered
           /\ users'[e].created = users[e].created /\ users'[e].role = users[e].role
           /\ users'[e].verifiedBy # users[e].verifiedBy =>
                e = a /\ users'[e].verifiedBy = c /\ users[e].status = "live"
      /\ users[a].status = "live" => users'[a].verifiedBy # Nobody
  <2>1. CASE ~Unverified(c)
    BY <2>1, <1>3 DEF MarkVerified, Unverified, Live, User
  <2>2. CASE Unverified(c)
    <3>1. users' = [users EXCEPT ![a].verifiedBy = c] /\ users[a].status = "live"
      BY <2>2 DEF MarkVerified, Unverified, Live, User
    <3>2. [users[a] EXCEPT !.verifiedBy = c] \in UserRow
      BY <1>2, <1>3 DEF UserRow
    <3>3. users' \in [Emails -> UserRow]
      BY <3>1, <3>2, <1>2, <1>3
    <3>4. \A e \in Emails :
           /\ users'[e].status = users[e].status /\ users'[e].registered = users[e].registered
           /\ users'[e].created = users[e].created /\ users'[e].role = users[e].role
           /\ users'[e].verifiedBy = IF e = a THEN c ELSE users[e].verifiedBy
      BY <3>1, <1>2, <1>3 DEF UserRow
    <3>. QED
      BY <3>1, <3>3, <3>4, <1>2, CallsAssumption
  <2>. QED
    BY <2>1, <2>2
<1>5. Moved(c, "done")
  BY <1>1, Moves DEF IInv
<1>6. /\ History'
      /\ \A d \in Calls : Kind(d)' = Kind(d) /\ (IsCode(d)' <=> IsCode(d))
      /\ \A d \in Calls : <<c, d>> \notin before
  BY <1>1, <1>5, GoesOn
<1>7. TypeOK'
  BY <1>1, <1>4, <1>5 DEF IInv, TypeOK, Moved
<1>8. Shape'
  BY <1>1, <1>5, ShapeKept
<1>9. Superseded'
  BY <1>1, <1>5, SupersededKept
<1>10. Origin'
  <2> SUFFICES ASSUME NEW e \in Emails
               PROVE  OriginOf(e)'
    BY DEF Origin
  <2>1. OriginOf(e) /\ users[e] \in UserRow
    BY DEF IInv, Origin, TypeOK
  <2>. QED
    BY <2>1, <1>1, <1>4, <1>5 DEF OriginOf, Moved, Early, UserRow
<1>11. LateIsNew'
  BY <1>1, <1>4, <1>5, <1>6, CallsAssumption DEF IInv, LateIsNew, Moved, User
<1>12. VerifiedAccountStays'
  <2> SUFFICES ASSUME NEW e \in Emails, users'[e].verifiedBy # Nobody, users[e].registered # Nobody
               PROVE  <<users'[e].verifiedBy, users[e].registered>> \notin before
    BY <1>1, <1>4 DEF VerifiedAccountStays
  <2>1. users[e].registered \in Calls
    BY <1>3 DEF UserRow
  <2>. QED
    BY <2>1, <1>4, <1>6 DEF IInv, VerifiedAccountStays
<1>13. CodeOnItsWay'
  <2>1. \A v \in Calls :
          /\ User(v)'.status = User(v).status
          /\ User(v)'.verifiedBy = Nobody => User(v).verifiedBy = Nobody
          /\ v = c /\ User(v).status = "live" => User(v)'.verifiedBy # Nobody
    BY <1>2, <1>4, CallsAssumption DEF User
  <2>2. User(c).status \in {"live", "deleted"}
    BY <1>1, <1>2, <1>3 DEF IInv, CodeOnItsWay, User, UserRow
  <2>. QED
    BY <2>1, <2>2, <1>1, <1>2, <1>5, <1>6 DEF IInv, CodeOnItsWay, Began, Moved
<1>14. ProfileNext'
  <2> SUFFICES ASSUME NEW e \in Emails \ profiles,
                      users[e].role = "vendor", users[e].registered = users[e].created
               PROVE  call'[users[e].created].at \in {"CreateVendorProfile", "failed"}
    BY <1>1, <1>4 DEF ProfileNext
  <2>1. call[users[e].created].at \in {"CreateVendorProfile", "failed"} /\ users[e].created \in Calls
    BY <1>3 DEF IInv, ProfileNext, Origin, OriginOf, UserRow
  <2>. QED
    BY <2>1, <1>1, <1>5 DEF Moved
<1>15. TokenSpent'
  BY <1>1, <1>2, <1>5, TokenKept
<1>. QED
  BY <1>6, <1>7, <1>8, <1>9, <1>10, <1>11, <1>12, <1>13, <1>14, <1>15 DEF IInv

LEMMA UpdatePasswordKeeps == ASSUME IInv, NEW c \in Calls, UpdatePassword(c) PROVE IInv'
<1> DEFINE a == EmailOf[call[c].enters]
<1>1. /\ profiles' = profiles /\ secrets' = secrets /\ mail' = mail /\ before' = before
      /\ call[c].at = "UpdatePassword" /\ Goes(c, "done")
      /\ users' = [users EXCEPT ![a].password = c]
      /\ "done" \in Outcomes \union {"RevokeActive"} /\ call[c].at \in Statements
      /\ "done" \in (Statements \ {"Create"}) \union Outcomes
  BY DEF UpdatePassword, Statements, Outcomes
<1>2. a \in Emails /\ Kind(c) = "ResetPassword"
  BY <1>1, CallsAssumption DEF IInv, Shape, ShapeOf, TypeOK, CallState
<1>3. users \in [Emails -> UserRow]
  BY DEF IInv, TypeOK
<1>4. [users[a] EXCEPT !.password = c] \in UserRow
  BY <1>2, <1>3 DEF UserRow
<1>5. /\ users' \in [Emails -> UserRow]
      /\ \A e \in Emails :
           /\ users'[e].status = users[e].status /\ users'[e].registered = users[e].registered
           /\ users'[e].created = users[e].created /\ users'[e].role = users[e].role
           /\ users'[e].verifiedBy = users[e].verifiedBy
  <2>1. users' \in [Emails -> UserRow]
    BY <1>1, <1>2, <1>3, <1>4
  <2>. QED
    BY <2>1, <1>1, <1>2, <1>3 DEF UserRow
<1>6. Moved(c, "done")
  BY <1>1, Moves DEF IInv
<1>7. /\ History'
      /\ \A d \in Calls : Kind(d)' = Kind(d) /\ (IsCode(d)' <=> IsCode(d))
  BY <1>1, <1>6, GoesOn
<1>8. TypeOK'
  BY <1>1, <1>5, <1>6 DEF IInv, TypeOK, Moved
<1>9. Shape'
  BY <1>1, <1>6, ShapeKept
<1>10. Superseded'
  BY <1>1, <1>6, SupersededKept
<1>11. Origin'
  <2>0. \A d \in Calls : call[d].at \notin Early => call'[d].at \notin Early
    BY <1>6 DEF Moved, Early
  <2> SUFFICES ASSUME NEW e \in Emails
               PROVE  OriginOf(e)'
    BY DEF Origin
  <2>1. OriginOf(e) /\ users[e] \in UserRow
    BY DEF IInv, Origin, TypeOK
  <2>. QED
    BY <2>0, <2>1, <1>5 DEF OriginOf, UserRow
<1>12. LateIsNew'
  BY <1>1, <1>5, <1>6, CallsAssumption DEF IInv, LateIsNew, Moved, User
<1>13. VerifiedAccountStays'
  BY <1>1, <1>5 DEF IInv, VerifiedAccountStays
<1>14. CodeOnItsWay'
  BY <1>1, <1>2, <1>5, <1>6, <1>7, CallsAssumption DEF IInv, CodeOnItsWay, Began, Moved, User
<1>15. ProfileNext'
  <2> SUFFICES ASSUME NEW e \in Emails \ profiles,
                      users[e].role = "vendor", users[e].registered = users[e].created
               PROVE  call'[users[e].created].at \in {"CreateVendorProfile", "failed"}
    BY <1>1, <1>5 DEF ProfileNext
  <2>1. call[users[e].created].at \in {"CreateVendorProfile", "failed"} /\ users[e].created \in Calls
    BY <1>3 DEF IInv, ProfileNext, Origin, OriginOf, UserRow
  <2>. QED
    BY <2>1, <1>1, <1>6 DEF Moved
<1>16. TokenSpent'
  BY <1>1, <1>6, TokenKept
<1>. QED
  BY <1>7, <1>8, <1>9, <1>10, <1>11, <1>12, <1>13, <1>14, <1>15, <1>16 DEF IInv

LEMMA ArriveKeeps == ASSUME IInv, NEW c \in Calls, Arrive(c) PROVE IInv'
<1>1. PICK k \in Kinds, r \in {"buyer", "vendor"}, x \in Calls :
        call' = [call EXCEPT ![c] = [kind |-> k, role |-> r, enters |-> x,
                                     at |-> IF k = "ResetPassword" THEN "Consume" ELSE "GetByEmail"]]
  BY DEF Arrive, OwnRole
<1>2. /\ users' = users /\ profiles' = profiles /\ secrets' = secrets /\ mail' = mail
      /\ before' = before \union {<<d, c>> : d \in {e \in Calls : Ended(e)}}
      /\ Kind(c) = "none" /\ call[c].at = "idle" /\ secrets[c].status = "none"
  BY DEF Arrive, rows, Began, IInv, Shape, ShapeOf, Outcomes
<1>3. /\ call' \in [Calls -> CallState]
      /\ call'[c].kind \in Kinds /\ call'[c].at \in {"GetByEmail", "Consume"}
      /\ call'[c].at = "Consume" => call'[c].kind = "ResetPassword"
      /\ \A d \in Calls \ {c} : call'[d] = call[d]
  <2>1. [kind |-> k, role |-> r, enters |-> x,
         at |-> IF k = "ResetPassword" THEN "Consume" ELSE "GetByEmail"] \in CallState
    BY DEF CallState, Statements
  <2>. QED
    BY <2>1, <1>1 DEF IInv, TypeOK
<1>4. \A d \in Calls \ {c} : Kind(d)' = Kind(d) /\ (IsCode(d)' <=> IsCode(d))
  BY <1>3 DEF Kind, IsCode
<1>5. \A d, e \in Calls : <<d, e>> \in before' <=> (<<d, e>> \in before \/ (e = c /\ Ended(d)))
  BY <1>2
<1>6. ~Ended(c) /\ ~Began(c) /\ \A d \in Calls : <<c, d>> \notin before /\ <<d, c>> \notin before
  <2>1. ~Ended(c) /\ ~Began(c)
    BY <1>2 DEF Ended, Began, Outcomes
  <2>. QED
    BY <2>1 DEF IInv, History
<1>7. TypeOK'
  BY <1>2, <1>3 DEF IInv, TypeOK
<1>8. Shape'
  <2> SUFFICES ASSUME NEW d \in Calls
               PROVE  ShapeOf(d)'
    BY DEF Shape
  <2>1. CASE d = c
    BY <1>2, <1>3, <2>1 DEF ShapeOf, Kind, Kinds
  <2>2. CASE d # c
    BY <1>2, <1>3, <1>4, <2>2 DEF IInv, Shape, ShapeOf
  <2>. QED
    BY <2>1, <2>2
<1>9. History'
  <2> SUFFICES ASSUME NEW d \in Calls, NEW e \in Calls, <<d, e>> \in before'
               PROVE  Ended(d)' /\ Began(e)'
    BY DEF History
  <2>1. Ended(d) /\ (e = c \/ Began(e))
    BY <1>5 DEF IInv, History
  <2>2. Ended(d)'
    BY <2>1, <1>3, <1>6 DEF Ended
  <2>3. Began(e)'
    BY <2>1, <1>3 DEF Began, Kind, Kinds
  <2>. QED
    BY <2>2, <2>3
<1>10. Superseded'
  <2> SUFFICES ASSUME NEW d \in Calls, NEW e \in Calls, <<d, e>> \in before',
                      IsCode(d)', IsCode(e)', EmailOf[d] = EmailOf[e],
                      call'[e].at = "Create" \/ secrets[e].status # "none"
               PROVE  secrets[d].status # "active"
    BY <1>2 DEF Superseded
  <2>1. e # c
    BY <1>2, <1>3
  <2>2. <<d, e>> \in before /\ d # c
    BY <2>1, <1>5, <1>6
  <2>. QED
    BY <2>1, <2>2, <1>3, <1>4 DEF IInv, Superseded
<1>11. Origin'
  <2> SUFFICES ASSUME NEW e \in Emails
               PROVE  OriginOf(e)'
    BY DEF Origin
  <2>1. OriginOf(e) /\ users[e] \in UserRow
    BY DEF IInv, Origin, TypeOK
  <2>. QED
    BY <2>1, <1>2, <1>3 DEF OriginOf, Early, UserRow
<1>12. LateIsNew'
  <2> SUFFICES ASSUME NEW d \in Calls, User(d).verifiedBy # Nobody, <<User(d).verifiedBy, d>> \in before',
                      call'[d].at = "UpdatePasswordAndRole"
               PROVE  FALSE
    BY <1>2 DEF LateIsNew, User
  <2>1. d # c /\ User(d).verifiedBy \in Calls
    BY <1>3, CallsAssumption DEF User, IInv, TypeOK, UserRow
  <2>. QED
    BY <2>1, <1>3, <1>5 DEF IInv, LateIsNew
<1>13. VerifiedAccountStays'
  <2> SUFFICES ASSUME NEW e \in Emails, users[e].verifiedBy # Nobody, users[e].registered # Nobody
               PROVE  <<users[e].verifiedBy, users[e].registered>> \notin before'
    BY <1>2 DEF VerifiedAccountStays
  <2>1. users[e].registered \in Calls /\ users[e].verifiedBy \in Calls
    BY DEF IInv, TypeOK, UserRow
  <2>2. users[e].registered # c
    BY <1>2 DEF IInv, Origin, OriginOf, Early
  <2>. QED
    BY <2>1, <2>2, <1>5 DEF IInv, VerifiedAccountStays
<1>14. CodeOnItsWay'
  <2>1. \A y \in Calls : secrets[y].by # c
    BY <1>6 DEF IInv, CodeOnItsWay
  <2>2. \A d \in Calls : User(d)' = User(d)
    BY <1>2 DEF User
  <2>3. \A d \in Calls \ {c} : Began(d)' <=> Began(d)
    BY <1>4 DEF Began
  <2>4. ~(call'[c].at \in {"Consume", "MarkVerified"} /\ Kind(c)' = "VerifyEmail")
    BY <1>3 DEF Kind
  <2>5. \A v \in Calls : call'[v].at \in {"Consume", "MarkVerified"} /\ Kind(v)' = "VerifyEmail"
                         => User(v)'.status # "none"
    BY <2>2, <2>4, <1>3, <1>4 DEF IInv, CodeOnItsWay
  <2>6. \A y, v \in Calls :
          secrets'[y].by = v /\ Kind(v)' = "VerifyEmail" =>
            /\ call'[v].at \in {"MarkVerified", "done", "failed"}
            /\ call'[v].at = "done" /\ User(v)'.verifiedBy = Nobody => User(v)'.status = "deleted"
    BY <2>1, <2>2, <1>2, <1>3, <1>4 DEF IInv, CodeOnItsWay
  <2>7. \A y, v \in Calls : secrets'[y].by = v => Began(v)'
    BY <2>1, <2>3, <1>2 DEF IInv, CodeOnItsWay
  <2>. QED
    BY <2>5, <2>6, <2>7 DEF CodeOnItsWay
<1>15. ProfileNext'
  <2> SUFFICES ASSUME NEW e \in Emails \ profiles,
                      users[e].role = "vendor", users[e].registered = users[e].created
               PROVE  call'[users[e].created].at \in {"CreateVendorProfile", "failed"}
    BY <1>2 DEF ProfileNext
  <2>1. call[users[e].created].at \in {"CreateVendorProfile", "failed"} /\ users[e].created \in Calls
    BY DEF IInv, ProfileNext, Origin, OriginOf, TypeOK, UserRow
  <2>. QED
    BY <2>1, <1>2, <1>3
<1>16. TokenSpent'
  BY <1>2, <1>3, <1>4 DEF IInv, TokenSpent
<1>. QED
  BY <1>7, <1>8, <1>9, <1>10, <1>11, <1>12, <1>13, <1>14, <1>15, <1>16 DEF IInv

LEMMA NextIInv == IInv /\ [Next]_vars => IInv'
<1> SUFFICES ASSUME IInv, [Next]_vars
             PROVE  IInv'
  OBVIOUS
<1>1. CASE UNCHANGED vars
  <2>1. /\ users' = users /\ profiles' = profiles /\ secrets' = secrets /\ mail' = mail
        /\ call' = call /\ before' = before
    BY <1>1 DEF vars, rows
  <2>2. TypeOK' /\ Shape' /\ History' /\ Superseded' /\ Origin' /\ LateIsNew'
    BY <2>1 DEF IInv, TypeOK, Shape, ShapeOf, History, Superseded, Origin, OriginOf, LateIsNew,
                Kind, IsCode, Ended, Began, User
  <2>3. VerifiedAccountStays' /\ CodeOnItsWay' /\ ProfileNext' /\ TokenSpent'
    BY <2>1 DEF IInv, VerifiedAccountStays, CodeOnItsWay, ProfileNext, TokenSpent, Kind, Began, User
  <2>. QED
    BY <2>2, <2>3 DEF IInv
<1>2. ASSUME NEW c \in Calls, Fail(c)
      PROVE  IInv'
  <2>1. call[c].at \in Statements
    BY <1>2 DEF Fail, UnderWay, Began, Ended, IInv, Shape, ShapeOf, TypeOK, CallState
  <2>. QED
    BY <1>2, <2>1, EndsKeeps DEF Fail, Outcomes
<1>3. ASSUME NEW c \in Calls, Send(c)
      PROVE  IInv'
  <2>1. call[c].at = "Send" /\ call[c].at \in Statements /\ UNCHANGED <<rows, mail, before>>
    BY <1>3 DEF Send, Statements
  <2>2. PICK s \in Outcomes : Goes(c, s)
    BY <1>3 DEF Send, Outcomes
  <2>. QED
    BY <2>1, <2>2, EndsKeeps
<1>4. ASSUME NEW c \in Calls, Statement(c)
      PROVE  IInv'
  BY <1>3, <1>4, GetByEmailKeeps, CreateUserKeeps, UpdatePasswordAndRoleKeeps, CreateVendorProfileKeeps,
     MarkVerifiedKeeps, UpdatePasswordKeeps, RevokeActiveKeeps, CreateKeeps, ConsumeKeeps DEF Statement
<1>. QED
  BY <1>1, <1>2, <1>4, ArriveKeeps, MailKeeps, SoftDeleteKeeps DEF Next

THEOREM Invariance == Spec => []IInv
<1>1. Init => IInv
  BY InitIInv
<1>2. IInv /\ [Next]_vars => IInv'
  BY NextIInv
<1>. QED
  BY <1>1, <1>2, PTL DEF Spec

\* The state has its type.
THEOREM TypeCorrect == Spec => []TypeOK
<1>1. IInv => TypeOK
  BY DEF IInv
<1>. QED
  BY <1>1, Invariance, PTL

\* However many requests there are, two codes of one address are active only if the
\* requests that made them overlapped (prepareVerificationOTP).
THEOREM OneActiveCodeHolds == Spec => []OneActiveCode
<1>1. IInv => OneActiveCode
  <2> SUFFICES ASSUME IInv, NEW c \in Calls, NEW d \in Calls, EmailOf[c] = EmailOf[d], IsCode(c), IsCode(d),
                      secrets[c].status = "active", secrets[d].status = "active"
               PROVE  Overlap(c, d)
    BY DEF OneActiveCode
  <2>1. <<c, d>> \notin before /\ <<d, c>> \notin before
    BY DEF IInv, Superseded
  <2>2. Began(c) /\ Began(d)
    BY DEF IsCode, Began
  <2>. QED
    BY <2>1, <2>2 DEF Overlap
<1>. QED
  BY <1>1, Invariance, PTL

\* A registration that began after the address was verified does not take the account
\* over (Register), and what a call leaves half done it leaves by failing.
THEOREM AccountsHoldAlways == Spec => []AccountsHold
<1>1. IInv => HalfDoneByFailing
  <2> SUFFICES ASSUME IInv
               PROVE  HalfDoneByFailing
    OBVIOUS
  <2>1. ASSUME NEW x \in Calls, NEW v \in Calls,
               secrets[x].by = v, Kind(v) = "VerifyEmail", User(v).verifiedBy = Nobody
        PROVE  UnderWay(v) \/ call[v].at = "failed" \/ ~Live(v)
    <3>1. CASE call[v].at = "MarkVerified"
      BY <2>1, <3>1 DEF UnderWay, Began, Ended, Outcomes
    <3>2. CASE call[v].at = "done"
      BY <2>1, <3>2 DEF IInv, CodeOnItsWay, Live
    <3>. QED
      BY <2>1, <3>1, <3>2 DEF IInv, CodeOnItsWay
  <2>2. ASSUME NEW e \in Emails \ profiles, users[e].role = "vendor"
        PROVE  \/ users[e].registered # users[e].created
               \/ UnderWay(users[e].created)
               \/ call[users[e].created].at = "failed"
    <3>1. users[e].status # "none" /\ users[e].created \in Calls
      BY <2>2 DEF IInv, Origin, OriginOf
    <3>2. CASE call[users[e].created].at = "CreateVendorProfile"
      BY <3>1, <3>2 DEF UnderWay, Began, Ended, Outcomes, IInv, Shape, ShapeOf
    <3>. QED
      BY <2>2, <3>2 DEF IInv, ProfileNext
  <2>3. ASSUME NEW v \in Calls, NEW w \in Calls,
               Kind(v) = "ResetPassword", Kind(w) = "ResetPassword",
               call[v].at = "done", call[w].at = "done", call[v].enters = call[w].enters
        PROVE  v = w
    BY <2>3 DEF IInv, TokenSpent
  <2>. QED
    BY <2>1, <2>2, <2>3 DEF HalfDoneByFailing
<1>2. IInv => AccountsHold
  BY <1>1 DEF IInv, AccountsHold
<1>. QED
  BY <1>2, Invariance, PTL
=============================================================================
